---------------------------- MODULE Spec2Model ----------------------------
(***************************************************************************)
(* Event distribution pipeline of mini-myos:                               *)
(*   register (lambda/register.ts), PUT subscription (CDK integration),    *)
(*   EventsStream -> aggregator (lambda/aggregator.ts) -> SubEventsTable   *)
(*   -> DynamoDB stream -> publisher (lambda/publisher.ts) -> SQS FIFO.    *)
(*                                                                         *)
(* Identifiers (uuid strings) and ISO-8601 timestamps are modelled as      *)
(* naturals: both are compared only for equality and for the sort order    *)
(* of a DynamoDB sort key, which for fixed-width ISO strings is the        *)
(* chronological order.  Keyed stores are read with strong consistency.    *)
(***************************************************************************)
EXTENDS Naturals, Integers, Sequences, FiniteSets, TLC

\* ------------------------------------------------------------------ bounds
MaxIds == 3
MaxTs == 2
MaxClock == 1
MaxCalls == 3
MaxRecords == 3
MaxBatch == 2
MaxProducers == 2
MaxSubs == 2
MaxAttempts == 2
MaxInvocations == 2

AgentIdSet == 1..MaxIds
Timestamps == 1..MaxTs
Payloads == {"d1", "d2"}
Arns == {"arn:aws:test:producer-resource", "arn:aws:test:listener-resource"}
RegIds == {1, 2}
ProducerIds == 1..MaxProducers

\* Absent values (JavaScript undefined).
NoId == MaxIds + 1
NoUrl == <<>>
NoArn == "undefined"

VARIABLES
  now,        \* wall clock read by new Date()
  agents,     \* AgentsTable: set of items
  queues,     \* SQS: queueUrl -> [msgs, dedup, policy]
  subs,       \* SubscribersTable: set of items
  kinesis,    \* EventsStream (one shard): sequence of records
  subEvents,  \* SubEventsTable: set of items
  feed,       \* DynamoDB stream of SubEventsTable: sequence of stream records
  reg,        \* register handler invocations
  agg,        \* aggregator event source mapping and invocation
  pub,        \* publisher event source mapping and invocation
  api,        \* API Gateway: requests counted, last subscription served
  client,     \* callers: the register responses received
  aggB,       \* aggregator invocation on a second shard of the stream
  sample      \* sample agent handler invocation

vars == <<now, agents, queues, subs, kinesis, subEvents, feed, reg, agg, pub, api, client, aggB, sample>>

\* ------------------------------------------------------------- sequences
RECURSIVE SeqToSet(_)
SeqToSet(s) == IF s = <<>> THEN {} ELSE {Head(s)} \cup SeqToSet(Tail(s))

RECURSIVE SortedSeq(_)
\* The elements of a finite set of naturals, ascending.
SortedSeq(S) ==
  IF S = {} THEN <<>>
  ELSE LET m == CHOOSE x \in S : \A y \in S : x <= y
       IN <<m>> \o SortedSeq(S \ {m})

Ascending(s) == s
RECURSIVE Reverse(_)
Reverse(s) == IF s = <<>> THEN <<>> ELSE Reverse(Tail(s)) \o <<Head(s)>>

Take(s, n) == SubSeq(s, 1, IF n < Len(s) THEN n ELSE Len(s))

\* --------------------------------------------------------------- DynamoDB
\* Primary keys of the three tables.  PutItem replaces the item that has the
\* same primary key.
AgentKey(item) == item.agentId
SubsKey(item) == <<item.producerId, item.subscriberId>>
SubEventKey(item) == <<item.subscriberId, item.timestamp>>

PutAgent(table, item) ==
  {x \in table : AgentKey(x) # AgentKey(item)} \cup {item}
PutSubscriptionByProducer(table, item) ==
  {x \in table : x.producerId # item.producerId} \cup {item}
PutSubscription(table, item) ==
  {x \in table : SubsKey(x) # SubsKey(item)} \cup {item}
PutSubEvent(table, item) ==
  {x \in table : SubEventKey(x) # SubEventKey(item)} \cup {item}

\* ------------------------------------------------------------------- SQS
QueueNameFixed(agentId) == <<"agents-", 1, ".fifo">>
QueueName(agentId) == <<"agents-", agentId, ".fifo">>
QueueUrlOf(queueName) == <<"sqs">> \o queueName
EmptyQueue == [msgs |-> <<>>, dedup |-> {}, policy |-> NoArn]

\* -------------------------------------------------------------- register
\* Request bodies of POST /agents: a JSON object with or without resourceArn
\* (possibly the empty string), or text that JSON.parse rejects.
Bodies ==
  [json : {TRUE}, resourceArn : Arns \cup {"", NoArn}]
    \cup {[json |-> FALSE, resourceArn |-> NoArn]}

IdleReg ==
  [pc |-> "idle", arn |-> NoArn, agentId |-> NoId, queueUrl |-> NoUrl,
   statusCode |-> 0, prior |-> FALSE, created |-> FALSE, wrote |-> FALSE,
   failedAt |-> "none"]

Response(r) ==
  [arn |-> reg[r].arn, statusCode |-> reg[r].statusCode,
   agentId |-> reg[r].agentId, queueUrl |-> reg[r].queueUrl,
   prior |-> reg[r].prior, created |-> reg[r].created, wrote |-> reg[r].wrote,
   failedAt |-> reg[r].failedAt]

\* uuidv4(): an identifier no queue, agent or running invocation holds.
UsedIds ==
  {a.agentId : a \in agents}
    \cup {i \in AgentIdSet : QueueUrlOf(QueueName(i)) \in DOMAIN queues}
    \cup {reg[r].agentId : r \in RegIds}
uuidv4 == AgentIdSet \ UsedIds

\* The items the resourceArn-index returns for an identity.
QueryWithoutIndex(arn) == {}
QueryByResourceArn(arn) == {a \in agents : a.resourceArn = arn}

\* A caller already holds a successful response for this identity.
PriorSuccess(arn) ==
  \E x \in client.responses : x.arn = arn /\ x.statusCode = 200

\* !resourceArn: undefined and the empty string are both falsy.
IsUndefined(resourceArn) == resourceArn = NoArn
IsMissing(resourceArn) == resourceArn \in {"", NoArn}

RegisterInvoke(r, body) ==
  /\ reg[r].pc = "idle"
  /\ api.calls < MaxCalls
  /\ api' = [api EXCEPT !.calls = @ + 1]
  /\ reg' = [reg EXCEPT ![r] =
       IF ~body.json
         THEN [IdleReg EXCEPT !.pc = "done", !.statusCode = 500,
                              !.failedAt = "parse"]
       ELSE IF IsMissing(body.resourceArn)
         THEN [IdleReg EXCEPT !.pc = "done", !.statusCode = 400,
                              !.arn = body.resourceArn]
       ELSE [IdleReg EXCEPT !.pc = "query", !.arn = body.resourceArn,
                            !.prior = PriorSuccess(body.resourceArn)]]
  /\ UNCHANGED <<now, agents, queues, subs, kinesis, subEvents, feed, agg, pub, client, aggB, sample>>

\* Lookup finds the identity: return the first item, nothing else happens.
RegisterExistingAny(r) ==
  /\ reg[r].pc = "query"
  /\ QueryByResourceArn(reg[r].arn) # {}
  /\ \E agent \in agents :
       reg' = [reg EXCEPT ![r].pc = "done", ![r].statusCode = 200,
                          ![r].agentId = agent.agentId,
                          ![r].queueUrl = agent.queueUrl]
  /\ UNCHANGED <<now, agents, queues, subs, kinesis, subEvents, feed, agg, pub, api, client, aggB, sample>>
RegisterExisting(r) ==
  /\ reg[r].pc = "query"
  /\ \E agent \in QueryByResourceArn(reg[r].arn) :
       reg' = [reg EXCEPT ![r].pc = "done", ![r].statusCode = 200,
                          ![r].agentId = agent.agentId,
                          ![r].queueUrl = agent.queueUrl]
  /\ UNCHANGED <<now, agents, queues, subs, kinesis, subEvents, feed, agg, pub, api, client, aggB, sample>>

\* Lookup finds nothing: generate the agentId.
RegisterNew(r) ==
  /\ reg[r].pc = "query"
  /\ QueryByResourceArn(reg[r].arn) = {}
  /\ \E id \in uuidv4 :
       reg' = [reg EXCEPT ![r].pc = "createQueue", ![r].agentId = id]
  /\ UNCHANGED <<now, agents, queues, subs, kinesis, subEvents, feed, agg, pub, api, client, aggB, sample>>

RegisterCreateQueue(r) ==
  /\ reg[r].pc = "createQueue"
  /\ LET url == QueueUrlOf(QueueName(reg[r].agentId)) IN
       /\ queues' = [u \in DOMAIN queues \cup {url} |->
                       IF u \in DOMAIN queues THEN queues[u] ELSE EmptyQueue]
       /\ reg' = [reg EXCEPT ![r].pc = "setPolicy", ![r].queueUrl = url,
                             ![r].created = TRUE]
  /\ UNCHANGED <<now, agents, subs, kinesis, subEvents, feed, agg, pub, api, client, aggB, sample>>

RegisterSkipPolicy(r) ==
  /\ reg[r].pc = "setPolicy"
  /\ reg' = [reg EXCEPT ![r].pc = "put"]
  /\ UNCHANGED <<now, agents, queues, subs, kinesis, subEvents, feed, agg, pub, api, client, aggB, sample>>
RegisterSetPolicy(r) ==
  /\ reg[r].pc = "setPolicy"
  /\ queues' = [queues EXCEPT ![reg[r].queueUrl].policy = reg[r].arn]
  /\ reg' = [reg EXCEPT ![r].pc = "put"]
  /\ UNCHANGED <<now, agents, subs, kinesis, subEvents, feed, agg, pub, api, client, aggB, sample>>

AgentItemWithoutArn(r) ==
  [resourceArn |-> NoArn, agentId |-> reg[r].agentId,
   queueUrl |-> reg[r].queueUrl, createdAt |-> now]
AgentItem(r) ==
  [resourceArn |-> reg[r].arn, agentId |-> reg[r].agentId,
   queueUrl |-> reg[r].queueUrl, createdAt |-> now]

RegisterPut(r) ==
  /\ reg[r].pc = "put"
  /\ agents' = PutAgent(agents, AgentItem(r))
  /\ reg' = [reg EXCEPT ![r].pc = "done", ![r].statusCode = 200,
                        ![r].wrote = TRUE]
  /\ UNCHANGED <<now, queues, subs, kinesis, subEvents, feed, agg, pub, api, client, aggB, sample>>

\* An awaited call rejects: the catch block answers 500.  failedAt is
\* history: the call that rejected.
RegisterRaise(r) ==
  /\ reg[r].pc \in {"query", "createQueue", "setPolicy", "put"}
  /\ reg' = [reg EXCEPT ![r].pc = "done", ![r].failedAt = reg[r].pc,
                        ![r].agentId = NoId, ![r].queueUrl = NoUrl]
  /\ UNCHANGED <<now, agents, queues, subs, kinesis, subEvents, feed, agg, pub, api, client, aggB, sample>>
RegisterThrow(r) ==
  /\ reg[r].pc \in {"query", "createQueue", "setPolicy", "put"}
  /\ reg' = [reg EXCEPT ![r].pc = "done", ![r].statusCode = 500,
                        ![r].failedAt = reg[r].pc,
                        ![r].agentId = NoId, ![r].queueUrl = NoUrl]
  /\ UNCHANGED <<now, agents, queues, subs, kinesis, subEvents, feed, agg, pub, api, client, aggB, sample>>

\* The PutCommand rejects (a timeout) although the table took the item.
RegisterPutLost(r) ==
  /\ reg[r].pc = "put"
  /\ agents' = PutAgent(agents, AgentItem(r))
  /\ reg' = [reg EXCEPT ![r].pc = "done", ![r].statusCode = 500,
                        ![r].failedAt = "put", ![r].wrote = TRUE,
                        ![r].agentId = NoId, ![r].queueUrl = NoUrl]
  /\ UNCHANGED <<now, queues, subs, kinesis, subEvents, feed, agg, pub, api, client, aggB, sample>>

RegisterReturn(r) ==
  /\ reg[r].pc = "done"
  /\ client' = [client EXCEPT !.responses = @ \cup {Response(r)}]
  /\ reg' = [reg EXCEPT ![r] = IdleReg]
  /\ UNCHANGED <<now, agents, queues, subs, kinesis, subEvents, feed, agg, pub, api, aggB, sample>>

\* One register call at a time (a caller that waits for each response).
RegisterInvokeSeq(r, body) ==
  /\ \A q \in RegIds : reg[q].pc = "idle"
  /\ RegisterInvoke(r, body)

Tick ==
  /\ now < MaxClock
  /\ now' = now + 1
  /\ UNCHANGED <<agents, queues, subs, kinesis, subEvents, feed, reg, agg, pub, api, client, aggB, sample>>

\* ------------------------------------------------------------- subscribe
\* PUT /agents/{listenerId}/subscriptions/{producerId}: API Gateway writes
\* the item straight to SubscribersTable with PutItem.
SubscriptionItemCreatedAt(listenerId, producerId) ==
  [producerId |-> producerId, subscriberId |-> listenerId, createdAt |-> now]
SubscriptionItem(listenerId, producerId) ==
  [producerId |-> producerId, subscriberId |-> listenerId]


putSubscription(listenerId, producerId) ==
  /\ api.requests < MaxCalls
  /\ subs' = PutSubscription(subs, SubscriptionItem(listenerId, producerId))
  /\ api' = [api EXCEPT !.requests = @ + 1, !.listenerId = listenerId,
                         !.producerId = producerId, !.statusCode = 200,
                         !.before = subs, !.error = "none"]
  /\ UNCHANGED <<now, agents, queues, kinesis, subEvents, feed, reg, agg, pub, client, aggB, sample>>

\* The integrationResponses of the route, in the order they are declared.
IntegrationResponses ==
  <<[statusCode |-> 200, selectionPattern |-> ".*"],
    [statusCode |-> 400, selectionPattern |-> "ValidationException|BadRequest"],
    [statusCode |-> 500, selectionPattern |-> ".*"]>>
\* What PutItem answers when it fails: the HTTP status and the error type.
PutItemErrors ==
  {[status |-> "400", type |-> "ValidationException"],
   [status |-> "400", type |-> "ProvisionedThroughputExceededException"],
   [status |-> "500", type |-> "InternalServerError"]}
\* The regular expressions of the route, on the text API Gateway tests:
\* the backend's status code or its error type.
PatternMatches(selectionPattern, text) ==
  IF selectionPattern = ".*" THEN TRUE
  ELSE text \in {"ValidationException", "BadRequest"}
\* The statuses whose pattern matches a failed PutItem.  Which of several
\* matching responses API Gateway takes is not fixed by the route.
SelectedStatuses(err) ==
  {IntegrationResponses[i].statusCode : i \in
     {j \in 1..Len(IntegrationResponses) :
        \/ PatternMatches(IntegrationResponses[j].selectionPattern, err.status)
        \/ PatternMatches(IntegrationResponses[j].selectionPattern, err.type)}}

\* PutItem fails: nothing is written, the route maps the error to a status.
putSubscriptionFailed(listenerId, producerId, err) ==
  /\ api.requests < MaxCalls
  /\ \E status \in SelectedStatuses(err) :
       api' = [api EXCEPT !.requests = @ + 1, !.listenerId = listenerId,
                          !.producerId = producerId, !.statusCode = status,
                          !.before = subs, !.error = err.type]
  /\ UNCHANGED <<now, agents, queues, subs, kinesis, subEvents, feed, reg, agg, pub, client, aggB, sample>>

\* Query on SubscribersTable by producerId: the subscriberIds in sort-key order.
listSubscribers(producerId) ==
  SortedSeq({x.subscriberId : x \in {y \in subs : y.producerId = producerId}})

\* ---------------------------------------------------------- EventsStream
\* Buffer.from(JSON.stringify(event)) and its inverse in the aggregator.
Encode(event) == <<"json", event>>
Malformed == <<"raw">>
IsJson(data) == Len(data) = 2 /\ data[1] = "json"
JsonParse(data) == data[2]

\* sendEventToKinesis: the partition key is the event's producerId.
sendEventToKinesis(event) ==
  /\ Len(kinesis) < MaxRecords
  /\ kinesis' = Append(kinesis,
       [partitionKey |-> event.producerId, data |-> Encode(event)])
  /\ UNCHANGED <<now, agents, queues, subs, subEvents, feed, reg, agg, pub, api, client, aggB, sample>>

Events == [producerId : ProducerIds, timestamp : Timestamps, data : Payloads]

\* POST /events: API Gateway calls PutRecord with the whole request body as
\* Data and the body's partitionKey member as PartitionKey.
EventBodies ==
  [partitionKey : ProducerIds, producerId : ProducerIds,
   timestamp : Timestamps, data : {"d1"}]
putEventRecord(body) ==
  /\ Len(kinesis) < MaxRecords
  /\ kinesis' = Append(kinesis,
       [partitionKey |-> body.partitionKey, data |-> Encode(body)])
  /\ UNCHANGED <<now, agents, queues, subs, subEvents, feed, reg, agg, pub, api, client, aggB, sample>>

\* A direct PutRecord whose Data is not JSON text.
putMalformedRecord(partitionKey) ==
  /\ Len(kinesis) < MaxRecords
  /\ kinesis' = Append(kinesis, [partitionKey |-> partitionKey, data |-> Malformed])
  /\ UNCHANGED <<now, agents, queues, subs, subEvents, feed, reg, agg, pub, api, client, aggB, sample>>

\* ------------------------------------------------ SubEventsTable + stream
\* One put and the stream record it causes: INSERT for a new key, MODIFY for
\* a changed item, nothing for a put that changes nothing.
StreamRecordsAlwaysInsert(table, item) ==
  <<[eventName |-> "INSERT", NewImage |-> item]>>
StreamRecordsOf(table, item) ==
  IF \A x \in table : SubEventKey(x) # SubEventKey(item)
    THEN <<[eventName |-> "INSERT", NewImage |-> item]>>
  ELSE IF item \in table THEN <<>>
  ELSE <<[eventName |-> "MODIFY", NewImage |-> item]>>

RECURSIVE ApplyPuts(_, _, _)
\* The puts of one request applied in request order.
ApplyPuts(table, stream, items) ==
  IF items = <<>> THEN [table |-> table, stream |-> stream]
  ELSE ApplyPuts(PutSubEvent(table, Head(items)),
                 stream \o StreamRecordsOf(table, Head(items)),
                 Tail(items))

HasDuplicateKeys(items) ==
  \E i, j \in 1..Len(items) :
    i < j /\ SubEventKey(items[i]) = SubEventKey(items[j])

\* ------------------------------------------------------------ aggregator
IdleAgg(pos) ==
  [pos |-> pos, pc |-> "idle", batch |-> <<>>, groups |-> <<>>, gi |-> 1,
   subsList |-> <<>>, si |-> 1, attempt |-> 0, statusCode |-> 0,
   store0 |-> {}, reads |-> <<>>, written |-> {}, earlier |-> {},
   failedAt |-> "none", writes |-> <<>>]

GroupKeysPerRecord(batch) ==
  [i \in 1..Len(batch) |-> batch[i].partitionKey]
RECURSIVE GroupKeys(_)
\* Object.entries(groups): the partition keys in order of first appearance.
GroupKeys(batch) ==
  IF batch = <<>> THEN <<>>
  ELSE LET rest == GroupKeys(SubSeq(batch, 1, Len(batch) - 1))
           k == batch[Len(batch)].partitionKey
       IN IF k \in SeqToSet(rest) THEN rest ELSE Append(rest, k)

RECURSIVE GroupRecords(_, _)
\* groups[partitionKey]: the decoded records of that key, in batch order.
GroupRecords(batch, key) ==
  IF batch = <<>> THEN <<>>
  ELSE IF Head(batch).partitionKey = key
    THEN <<JsonParse(Head(batch).data)>> \o GroupRecords(Tail(batch), key)
  ELSE GroupRecords(Tail(batch), key)

Groups(batch) ==
  [i \in 1..Len(GroupKeys(batch)) |->
     [agentId |-> GroupKeys(batch)[i],
      records |-> GroupRecords(batch, GroupKeys(batch)[i])]]

\* The item written for one subscriber and one decoded record.
SubEventItemPerAttempt(subscriberId, record) ==
  [subscriberId |-> subscriberId,
   timestamp |-> record.timestamp + agg.attempt - 1, data |-> record.data]
SubEventItemWriteTime(subscriberId, record) ==
  [subscriberId |-> subscriberId, timestamp |-> now, data |-> record.data]
SubEventItem(subscriberId, record) ==
  [subscriberId |-> subscriberId, timestamp |-> record.timestamp,
   data |-> record.data]

PutRequestsNextSubscriber(subscriberId, records) ==
  [i \in 1..Len(records) |-> SubEventItem((subscriberId % MaxIds) + 1, records[i])]
PutRequests(subscriberId, records) ==
  [i \in 1..Len(records) |-> SubEventItem(subscriberId, records[i])]

\* res.Items ?? [] and the length test that follows.
SubscribersOfStrict(res) ==
  [ok |-> res.hasItems, subs |-> res.Items]
SubscribersOf(res) ==
  [ok |-> TRUE, subs |-> IF res.hasItems THEN res.Items ELSE <<>>]

\* What the Query may answer: the matching items, or no Items member at all
\* when nothing matches.
QueryResults(producerId) ==
  {[hasItems |-> TRUE, Items |-> listSubscribers(producerId)]}
    \cup (IF listSubscribers(producerId) = <<>>
            THEN {[hasItems |-> FALSE, Items |-> <<>>]} ELSE {})

\* store0 and earlier are history: the table when the batch was first
\* delivered, and what failed deliveries of the batch wrote.  reads and
\* writes are history too: the QueryCommands and BatchWriteCommands of the
\* invocation, in the order the handler sent them.
AggStartSkipMalformed(batch, pos, attempt, store0, earlier) ==
  LET a == [IdleAgg(pos) EXCEPT !.batch = batch, !.attempt = attempt,
                                !.store0 = store0, !.earlier = earlier]
      Good(record) == IsJson(record.data)
      good == SelectSeq(batch, Good)
  IN IF Groups(good) = <<>>
       THEN [a EXCEPT !.pc = "done", !.statusCode = 200]
     ELSE [a EXCEPT !.pc = "query", !.groups = Groups(good)]
AggStart(batch, pos, attempt, store0, earlier) ==
  LET a == [IdleAgg(pos) EXCEPT !.batch = batch, !.attempt = attempt,
                                !.store0 = store0, !.earlier = earlier]
  IN IF \E i \in 1..Len(batch) : ~IsJson(batch[i].data)
       THEN [a EXCEPT !.pc = "failed", !.failedAt = "parse"]
     ELSE IF Groups(batch) = <<>>
       THEN [a EXCEPT !.pc = "done", !.statusCode = 200]
     ELSE [a EXCEPT !.pc = "query", !.groups = Groups(batch)]

\* The event source mapping delivers the next records of the shard.
AggregatorInvoke(n) ==
  /\ agg.pc = "idle"
  /\ n >= 1 /\ agg.pos + n <= Len(kinesis)
  /\ agg' = AggStart(SubSeq(kinesis, agg.pos + 1, agg.pos + n), agg.pos, 1, subEvents, {})
  /\ UNCHANGED <<now, agents, queues, subs, kinesis, subEvents, feed, reg, pub, api, client, aggB, sample>>

\* The handler called with no records at all.
AggregatorInvokeEmpty ==
  /\ agg.pc = "idle"
  /\ agg' = AggStart(<<>>, agg.pos, 1, subEvents, {})
  /\ UNCHANGED <<now, agents, queues, subs, kinesis, subEvents, feed, reg, pub, api, client, aggB, sample>>

\* Move to the next producer of the batch, or finish.
AggNextGroup(a) ==
  IF a.gi < Len(a.groups)
    THEN [a EXCEPT !.pc = "query", !.gi = @ + 1, !.subsList = <<>>, !.si = 1]
  ELSE [a EXCEPT !.pc = "done", !.statusCode = 200]

AggregatorQuery ==
  /\ agg.pc = "query"
  /\ \E res \in QueryResults(agg.groups[agg.gi].agentId) :
       LET out == SubscribersOf(res)
           a == [agg EXCEPT !.reads = Append(@,
                   [agentId |-> agg.groups[agg.gi].agentId, subs |-> out.subs,
                    hasItems |-> res.hasItems])]
       IN agg' = IF ~out.ok THEN [a EXCEPT !.pc = "failed"]
                 ELSE IF Len(out.subs) = 0 THEN AggNextGroup(a)
                 ELSE [a EXCEPT !.pc = "write", !.subsList = out.subs, !.si = 1]
  /\ UNCHANGED <<now, agents, queues, subs, kinesis, subEvents, feed, reg, pub, api, client, aggB, sample>>

\* One BatchWriteCommand: all records of the producer for one subscriber.
AggregatorBatchWrite ==
  /\ agg.pc = "write"
  /\ LET items == PutRequests(agg.subsList[agg.si], agg.groups[agg.gi].records)
         out == ApplyPuts(subEvents, feed, items)
         a == [agg EXCEPT !.written = @ \cup
                 {[agentId |-> agg.groups[agg.gi].agentId, item |-> items[i]] :
                    i \in 1..Len(items)},
                          !.writes = Append(@,
                 [agentId |-> agg.groups[agg.gi].agentId,
                  subscriberId |-> agg.subsList[agg.si], items |-> items])]
     IN /\ subEvents' = out.table
        /\ feed' = out.stream
        /\ agg' = IF agg.si < Len(agg.subsList)
                    THEN [a EXCEPT !.si = @ + 1]
                  ELSE AggNextGroup(a)
  /\ UNCHANGED <<now, agents, queues, subs, kinesis, reg, pub, api, client, aggB, sample>>

\* The same handler, invoked by the event source mapping of a second shard
\* while the first shard's invocation runs: its batch is the shard's next
\* records, its progress is aggB.
ShardBRecords ==
  {[partitionKey |-> e.producerId, data |-> Encode(e)] :
     e \in {x \in Events : x.producerId = 2}}
ShardBBatches ==
  UNION {[1..n -> ShardBRecords] : n \in 1..MaxBatch}
AggregatorInvokeB(batch) ==
  /\ aggB.pc = "idle"
  /\ aggB' = AggStart(batch, 0, 1, subEvents, {})
  /\ UNCHANGED <<now, agents, queues, subs, kinesis, subEvents, feed, reg, agg, pub, api, client, sample>>

AggregatorQueryB ==
  /\ aggB.pc = "query"
  /\ \E res \in QueryResults(aggB.groups[aggB.gi].agentId) :
       LET out == SubscribersOf(res)
           a == [aggB EXCEPT !.reads = Append(@,
                   [agentId |-> aggB.groups[aggB.gi].agentId, subs |-> out.subs,
                    hasItems |-> res.hasItems])]
       IN aggB' = IF ~out.ok THEN [a EXCEPT !.pc = "failed"]
                  ELSE IF Len(out.subs) = 0 THEN AggNextGroup(a)
                  ELSE [a EXCEPT !.pc = "write", !.subsList = out.subs, !.si = 1]
  /\ UNCHANGED <<now, agents, queues, subs, kinesis, subEvents, feed, reg, agg, pub, api, client, sample>>

AggregatorBatchWriteBStale ==
  /\ aggB.pc = "write"
  /\ LET items == PutRequests(aggB.subsList[aggB.si], aggB.groups[aggB.gi].records)
         out == ApplyPuts(aggB.store0, feed, items)
         a == [aggB EXCEPT !.written = @ \cup
                 {[agentId |-> aggB.groups[aggB.gi].agentId, item |-> items[i]] :
                    i \in 1..Len(items)},
                           !.writes = Append(@,
                 [agentId |-> aggB.groups[aggB.gi].agentId,
                  subscriberId |-> aggB.subsList[aggB.si], items |-> items])]
     IN /\ subEvents' = out.table
        /\ feed' = out.stream
        /\ aggB' = IF aggB.si < Len(aggB.subsList)
                     THEN [a EXCEPT !.si = @ + 1]
                   ELSE AggNextGroup(a)
  /\ UNCHANGED <<now, agents, queues, subs, kinesis, reg, agg, pub, api, client, sample>>
AggregatorBatchWriteB ==
  /\ aggB.pc = "write"
  /\ LET items == PutRequests(aggB.subsList[aggB.si], aggB.groups[aggB.gi].records)
         out == ApplyPuts(subEvents, feed, items)
         a == [aggB EXCEPT !.written = @ \cup
                 {[agentId |-> aggB.groups[aggB.gi].agentId, item |-> items[i]] :
                    i \in 1..Len(items)},
                           !.writes = Append(@,
                 [agentId |-> aggB.groups[aggB.gi].agentId,
                  subscriberId |-> aggB.subsList[aggB.si], items |-> items])]
     IN /\ subEvents' = out.table
        /\ feed' = out.stream
        /\ aggB' = IF aggB.si < Len(aggB.subsList)
                     THEN [a EXCEPT !.si = @ + 1]
                   ELSE AggNextGroup(a)
  /\ UNCHANGED <<now, agents, queues, subs, kinesis, reg, agg, pub, api, client, sample>>

\* The store refuses a request that names one key twice.
AggregatorBatchWriteRejected ==
  /\ agg.pc = "write"
  /\ agg.attempt < MaxAttempts
  /\ HasDuplicateKeys(PutRequests(agg.subsList[agg.si], agg.groups[agg.gi].records))
  /\ agg' = [agg EXCEPT !.pc = "failed", !.failedAt = "write"]
  /\ UNCHANGED <<now, agents, queues, subs, kinesis, subEvents, feed, reg, pub, api, client, aggB, sample>>

\* A store read or write fails: the handler throws.  failedAt is history:
\* the call that rejected.
AggregatorCatchAndContinue ==
  /\ agg.pc \in {"query", "write"}
  /\ agg.attempt < MaxAttempts
  /\ agg' = AggNextGroup([agg EXCEPT !.failedAt = agg.pc])
  /\ UNCHANGED <<now, agents, queues, subs, kinesis, subEvents, feed, reg, pub, api, client, aggB, sample>>
AggregatorThrow ==
  /\ agg.pc \in {"query", "write"}
  /\ agg.attempt < MaxAttempts
  /\ agg' = [agg EXCEPT !.pc = "failed", !.failedAt = agg.pc]
  /\ UNCHANGED <<now, agents, queues, subs, kinesis, subEvents, feed, reg, pub, api, client, aggB, sample>>

\* The failed batch is delivered again, unchanged.
AggregatorSkipFailed ==
  /\ agg.pc = "failed"
  /\ agg' = IdleAgg(agg.pos + Len(agg.batch))
  /\ UNCHANGED <<now, agents, queues, subs, kinesis, subEvents, feed, reg, pub, api, client, aggB, sample>>
AggregatorRedeliver ==
  /\ agg.pc = "failed"
  /\ agg' = AggStart(agg.batch, agg.pos,
                     IF agg.attempt < MaxAttempts THEN agg.attempt + 1 ELSE agg.attempt,
                     agg.store0, agg.earlier \cup agg.written)
  /\ UNCHANGED <<now, agents, queues, subs, kinesis, subEvents, feed, reg, pub, api, client, aggB, sample>>

\* The invocation ends in an error after its last write (a timeout, a lost
\* result): the batch, fully processed, counts as failed.
AggregatorResultLost ==
  /\ agg.pc = "done"
  /\ agg.attempt < MaxAttempts
  /\ agg' = [agg EXCEPT !.pc = "failed", !.statusCode = 0, !.failedAt = "result"]
  /\ UNCHANGED <<now, agents, queues, subs, kinesis, subEvents, feed, reg, pub, api, client, aggB, sample>>

\* statusCode 200: the checkpoint moves past the batch.
AggregatorAck ==
  /\ agg.pc = "done"
  /\ agg' = IdleAgg(agg.pos + Len(agg.batch))
  /\ UNCHANGED <<now, agents, queues, subs, kinesis, subEvents, feed, reg, pub, api, client, aggB, sample>>

\* ------------------------------------------------------------- publisher
\* addSubEvent: a put of one item into SubEventsTable.
addSubEvent(subscriberId, timestamp, data) ==
  /\ Len(feed) < MaxRecords
  /\ LET item == [subscriberId |-> subscriberId, timestamp |-> timestamp,
                  data |-> data]
     IN /\ subEvents' = PutSubEvent(subEvents, item)
        /\ feed' = feed \o StreamRecordsOf(subEvents, item)
  /\ UNCHANGED <<now, agents, queues, subs, kinesis, reg, agg, pub, api, client, aggB, sample>>

\* cleanDynamoDBTable, one DeleteItemCommand: the item leaves the table and
\* the stream reports REMOVE, which has no new image.
NoImage == <<>>
DeleteSubEvent(item) ==
  /\ item \in subEvents
  /\ subEvents' = subEvents \ {item}
  /\ feed' = Append(feed, [eventName |-> "REMOVE", NewImage |-> NoImage])
  /\ UNCHANGED <<now, agents, queues, subs, kinesis, reg, agg, pub, api, client, aggB, sample>>

\* A stream record of any kind reaches the publisher: any eventName, with
\* or without NewImage, the image with or without subscriberId.
StreamRecords ==
  {[eventName |-> n, NewImage |-> img] :
     n \in {"INSERT", "MODIFY", "REMOVE"},
     img \in {NoImage} \cup [subscriberId : {1, NoId}, timestamp : {1}, data : {"d1"}]}
StreamNotify(record) ==
  /\ Len(feed) < MaxRecords
  /\ feed' = Append(feed, record)
  /\ UNCHANGED <<now, agents, queues, subs, kinesis, subEvents, reg, agg, pub, api, client, aggB, sample>>

IdlePub(pos) ==
  [pos |-> pos, pc |-> "idle", batch |-> <<>>, order |-> <<>>, k |-> 1,
   sortedEvents |-> <<>>, queueUrl |-> NoUrl, attempt |-> 0, statusCode |-> 0,
   log |-> <<>>, failedAt |-> "none"]

\* log and failedAt are history: the store, registry and queue calls of the
\* invocation that returned, in the order the handler made them, and the
\* call that rejected.
Call(op, subscriberId, found, queueUrl, groupId) ==
  [op |-> op, subscriberId |-> subscriberId, found |-> found,
   queueUrl |-> queueUrl, groupId |-> groupId]

\* The stream records the handler keeps.
IsModify(record) == record.eventName = "MODIFY"
IsInsertOrModify(record) ==
  /\ record.eventName \in {"INSERT", "MODIFY"}
  /\ record.NewImage # NoImage
  /\ record.NewImage.subscriberId # NoId
\* eventName === "INSERT" with a NewImage that has a subscriberId.
IsInsert(record) ==
  /\ record.eventName = "INSERT"
  /\ record.NewImage # NoImage
  /\ record.NewImage.subscriberId # NoId

SubscriberPerRecord(batch) ==
  [i \in 1..Len(batch) |-> batch[i].NewImage.subscriberId]
RECURSIVE SubscriberOrder(_)
\* Object.entries(eventsBySubscriber): subscribers in order of first appearance.
SubscriberOrder(batch) ==
  IF batch = <<>> THEN <<>>
  ELSE LET rest == SubscriberOrder(SubSeq(batch, 1, Len(batch) - 1))
           rec == batch[Len(batch)]
       IN IF ~IsInsert(rec) \/ rec.NewImage.subscriberId \in SeqToSet(rest)
            THEN rest
          ELSE Append(rest, rec.NewImage.subscriberId)

EventCountNewestTimestamp(batch, subscriberId) ==
  LET ts == {batch[i].NewImage.timestamp : i \in
               {j \in 1..Len(batch) :
                  IsInsert(batch[j]) /\ batch[j].NewImage.subscriberId = subscriberId}}
  IN CHOOSE t \in ts : \A u \in ts : u <= t
\* records.length for one subscriber.
EventCount(batch, subscriberId) ==
  Cardinality({i \in 1..Len(batch) :
     IsInsert(batch[i]) /\ batch[i].NewImage.subscriberId = subscriberId})

\* Query with ScanIndexForward: false and Limit: the newest items first.
ItemsDescending(subscriberId) ==
  LET mine == {x \in subEvents : x.subscriberId = subscriberId}
      ts == Reverse(SortedSeq({x.timestamp : x \in mine}))
  IN [i \in 1..Len(ts) |-> CHOOSE x \in mine : x.timestamp = ts[i]]
QueryNewestOnly(subscriberId, limit) == Take(ItemsDescending(subscriberId), 1)
QueryLatest(subscriberId, limit) == Take(ItemsDescending(subscriberId), limit)

PubStart(batch, pos, attempt) ==
  IF SubscriberOrder(batch) = <<>>
    THEN [IdlePub(pos) EXCEPT !.pc = "done", !.batch = batch, !.statusCode = 200,
                              !.attempt = attempt]
  ELSE [IdlePub(pos) EXCEPT !.pc = "query", !.batch = batch,
                            !.order = SubscriberOrder(batch), !.attempt = attempt]

\* The event source mapping delivers the next records of the table's stream.
PublisherInvoke(n) ==
  /\ pub.pc = "idle"
  /\ n >= 1 /\ pub.pos + n <= Len(feed)
  /\ pub' = PubStart(SubSeq(feed, pub.pos + 1, pub.pos + n), pub.pos, 1)
  /\ UNCHANGED <<now, agents, queues, subs, kinesis, subEvents, feed, reg, agg, api, client, aggB, sample>>

\* The handler called with no records at all.
PublisherInvokeEmpty ==
  /\ pub.pc = "idle"
  /\ pub' = PubStart(<<>>, pub.pos, 1)
  /\ UNCHANGED <<now, agents, queues, subs, kinesis, subEvents, feed, reg, agg, api, client, aggB, sample>>

PubReturnEarly(p) == [p EXCEPT !.pc = "done", !.statusCode = 200]
PubNextSubscriber(p) ==
  IF p.k < Len(p.order)
    THEN [p EXCEPT !.pc = "query", !.k = @ + 1, !.sortedEvents = <<>>,
                   !.queueUrl = NoUrl]
  ELSE [p EXCEPT !.pc = "done", !.statusCode = 200]

PublisherQuery ==
  /\ pub.pc = "query"
  /\ LET found == QueryLatest(pub.order[pub.k], EventCount(pub.batch, pub.order[pub.k]))
         p == [pub EXCEPT !.log = Append(@,
                 Call("query", pub.order[pub.k], Len(found), NoUrl, NoId))]
     IN pub' = IF Len(found) = 0 THEN PubNextSubscriber(p)
               ELSE [p EXCEPT !.pc = "getAgent", !.sortedEvents = found]
  /\ UNCHANGED <<now, agents, queues, subs, kinesis, subEvents, feed, reg, agg, api, client, aggB, sample>>

\* GetCommand on AgentsTable: the item whose key is the agentId, if any.
GetAnyAgent(agentId) == agents
GetAgent(agentId) == {a \in agents : a.agentId = agentId}

\* GetCommand by subscriberId, then the queueUrl test.
PublisherGetAgent ==
  /\ pub.pc = "getAgent"
  /\ LET found == GetAgent(pub.order[pub.k])
         url == IF found = {} THEN NoUrl ELSE (CHOOSE a \in found : TRUE).queueUrl
         p == [pub EXCEPT !.log = Append(@,
                 Call("get", pub.order[pub.k], Cardinality(found), url, NoId))]
     IN pub' = IF url = NoUrl THEN PubNextSubscriber(p)
               ELSE [p EXCEPT !.pc = "send", !.queueUrl = url]
  /\ UNCHANGED <<now, agents, queues, subs, kinesis, subEvents, feed, reg, agg, api, client, aggB, sample>>

\* The message body and the identifier content-based deduplication derives.
MessageBody(subscriberId, events) ==
  [subscriberId |-> subscriberId, events |-> events, timestamp |-> now]
ContentHash(body) == <<"sha256", body>>

\* SendMessage to a FIFO queue: a body already seen is accepted and dropped.
SendMessage(q, body, groupId, delivery) ==
  IF ContentHash(body) \in q.dedup THEN q
  ELSE [q EXCEPT !.msgs = Append(@, [body |-> body, groupId |-> groupId,
                                     delivery |-> delivery]),
                 !.dedup = @ \cup {ContentHash(body)}]

\* MessageGroupId: subscriberId.
MessageGroupIdPerBatch(subscriberId) == subscriberId + pub.pos
MessageGroupId(subscriberId) == subscriberId

PublisherSendAndDelete ==
  /\ pub.pc = "send"
  /\ pub.queueUrl \in DOMAIN queues
  /\ queues' = [queues EXCEPT ![pub.queueUrl] =
       SendMessage(@, MessageBody(pub.order[pub.k], pub.sortedEvents),
                   MessageGroupId(pub.order[pub.k]),
                   [pos |-> pub.pos, attempt |-> pub.attempt, n |-> Len(pub.batch)])]
  /\ subEvents' = subEvents \ SeqToSet(pub.sortedEvents)
  /\ pub' = PubNextSubscriber([pub EXCEPT !.log = Append(@,
               Call("send", pub.order[pub.k], Len(pub.sortedEvents), pub.queueUrl,
                    pub.order[pub.k]))])
  /\ UNCHANGED <<now, agents, subs, kinesis, feed, reg, agg, api, client, aggB, sample>>
PublisherSend ==
  /\ pub.pc = "send"
  /\ pub.queueUrl \in DOMAIN queues
  /\ queues' = [queues EXCEPT ![pub.queueUrl] =
       SendMessage(@, MessageBody(pub.order[pub.k], pub.sortedEvents),
                   MessageGroupId(pub.order[pub.k]),
                   [pos |-> pub.pos, attempt |-> pub.attempt, n |-> Len(pub.batch)])]
  /\ pub' = PubNextSubscriber([pub EXCEPT !.log = Append(@,
               Call("send", pub.order[pub.k], Len(pub.sortedEvents), pub.queueUrl,
                    pub.order[pub.k]))])
  /\ UNCHANGED <<now, agents, subs, kinesis, subEvents, feed, reg, agg, api, client, aggB, sample>>

\* A read, a lookup or the send fails: the handler throws.
PublisherCatchAndContinue ==
  /\ pub.pc \in {"query", "getAgent", "send"}
  /\ pub.attempt < MaxAttempts
  /\ pub' = PubNextSubscriber([pub EXCEPT !.failedAt = pub.pc])
  /\ UNCHANGED <<now, agents, queues, subs, kinesis, subEvents, feed, reg, agg, api, client, aggB, sample>>
PublisherThrow ==
  /\ pub.pc \in {"query", "getAgent", "send"}
  /\ pub.attempt < MaxAttempts
  /\ pub' = [pub EXCEPT !.pc = "failed", !.failedAt = pub.pc]
  /\ UNCHANGED <<now, agents, queues, subs, kinesis, subEvents, feed, reg, agg, api, client, aggB, sample>>

\* The failed batch is delivered again, unchanged.
PublisherRedeliver ==
  /\ pub.pc = "failed"
  /\ pub' = PubStart(pub.batch, pub.pos, pub.attempt + 1)
  /\ UNCHANGED <<now, agents, queues, subs, kinesis, subEvents, feed, reg, agg, api, client, aggB, sample>>

PublisherAck ==
  /\ pub.pc = "done"
  /\ pub' = IdlePub(pub.pos + Len(pub.batch))
  /\ UNCHANGED <<now, agents, queues, subs, kinesis, subEvents, feed, reg, agg, api, client, aggB, sample>>

\* -------------------------------------------------------- specifications
\* ------------------------------------------------------------------------
\* The sample agent handler (second module of register.ts): one invocation
\* per batch of inbox messages.  invoked counts invocations; start is the
\* Event Log when the invocation began and items what its lookup returned.
IdleSample ==
  [pc |-> "idle", arn |-> NoArn, records |-> 0, agentId |-> NoId,
   items |-> {}, start |-> <<>>, failedAt |-> "none", invoked |-> 0]

SampleArns == Arns \cup {"arn:aws:test:unregistered-resource"}

\* Lambda invokes the handler with event.Records (records messages) and
\* context.invokedFunctionArn (arn).
SampleInvoke(arn, records) ==
  /\ sample.pc \in {"idle", "done", "failed"}
  /\ sample.invoked < MaxInvocations
  /\ sample' = [IdleSample EXCEPT !.pc = "query", !.arn = arn,
                                  !.records = records, !.start = kinesis,
                                  !.invoked = sample.invoked + 1]
  /\ UNCHANGED <<now, agents, queues, subs, kinesis, subEvents, feed, reg, agg, pub, api, client, aggB>>

\* QueryCommand on resourceArn-index; no Items: throw.  Otherwise Items[0],
\* any of the items of that identity (the index has no sort key).
SampleQuery ==
  /\ sample.pc = "query"
  /\ LET Items == QueryByResourceArn(sample.arn) IN
       IF Items = {}
       THEN sample' = [sample EXCEPT !.pc = "failed", !.failedAt = "query"]
       ELSE \E item \in Items :
              sample' = [sample EXCEPT !.pc = "putRecord", !.items = Items,
                                       !.agentId = item.agentId]
  /\ UNCHANGED <<now, agents, queues, subs, kinesis, subEvents, feed, reg, agg, pub, api, client, aggB>>

\* eventData of the handler, stamped with new Date().
SampleEvent(agentId) ==
  [agentId |-> agentId, timestamp |-> now, data |-> "Hello from agent"]
SampleRecord(agentId) ==
  [partitionKey |-> agentId, data |-> Encode(SampleEvent(agentId))]

\* The loop over event.Records only logs; then one PutRecordCommand.
SamplePutRecordPerMessage ==
  /\ sample.pc = "putRecord"
  /\ Len(kinesis) + sample.records <= MaxRecords
  /\ kinesis' = kinesis \o [i \in 1..sample.records |-> SampleRecord(sample.agentId)]
  /\ sample' = [sample EXCEPT !.pc = "done"]
  /\ UNCHANGED <<now, agents, queues, subs, subEvents, feed, reg, agg, pub, api, client, aggB>>
SamplePutRecord ==
  /\ sample.pc = "putRecord"
  /\ Len(kinesis) < MaxRecords
  /\ kinesis' = Append(kinesis, SampleRecord(sample.agentId))
  /\ sample' = [sample EXCEPT !.pc = "done"]
  /\ UNCHANGED <<now, agents, queues, subs, subEvents, feed, reg, agg, pub, api, client, aggB>>

\* kinesis.send rejects: the handler has no catch, the invocation fails.
SamplePutRecordRejected ==
  /\ sample.pc = "putRecord"
  /\ sample' = [sample EXCEPT !.pc = "failed", !.failedAt = "putRecord"]
  /\ UNCHANGED <<now, agents, queues, subs, kinesis, subEvents, feed, reg, agg, pub, api, client, aggB>>

InitBase ==
  /\ now = 0
  /\ agents = {}
  /\ queues = <<>>
  /\ subs = {}
  /\ kinesis = <<>>
  /\ subEvents = {}
  /\ feed = <<>>
  /\ reg = [r \in RegIds |-> IdleReg]
  /\ agg = IdleAgg(0)
  /\ pub = IdlePub(0)
  /\ api = [calls |-> 0, requests |-> 0, listenerId |-> NoId,
            producerId |-> NoId, statusCode |-> 0, before |-> {},
            error |-> "none"]
  /\ client = [responses |-> {}]
  /\ aggB = IdleAgg(0)
  /\ sample = IdleSample

RegisterSteps ==
  \E r \in RegIds :
    \/ RegisterExisting(r)
    \/ RegisterNew(r)
    \/ RegisterCreateQueue(r)
    \/ RegisterSetPolicy(r)
    \/ RegisterPut(r)
    \/ RegisterReturn(r)

AggregatorSteps ==
  \/ \E n \in 1..MaxBatch : AggregatorInvoke(n)
  \/ AggregatorQuery
  \/ AggregatorBatchWrite
  \/ AggregatorAck

PublisherSteps ==
  \/ \E n \in 1..MaxBatch : PublisherInvoke(n)
  \/ PublisherQuery
  \/ PublisherGetAgent
  \/ PublisherSend
  \/ PublisherAck

\* Registrations that may interleave.
NextReg ==
  \/ \E r \in RegIds, body \in Bodies : RegisterInvoke(r, body)
  \/ RegisterSteps
  \/ \E r \in RegIds : RegisterThrow(r)
  \/ \E r \in RegIds : RegisterPutLost(r)
SpecReg == InitBase /\ [][NextReg]_vars

\* Registrations made one after the other.
NextRegSeq ==
  \/ \E r \in RegIds, body \in Bodies : RegisterInvokeSeq(r, body)
  \/ RegisterSteps
  \/ \E r \in RegIds : RegisterThrow(r)
  \/ \E r \in RegIds : RegisterPutLost(r)
SpecRegSeq == InitBase /\ [][NextRegSeq]_vars

\* Registrations of well-formed requests, interleaved, and invocations of
\* the sample agent function under a registered or an unregistered identity.
NextSample ==
  \/ \E r \in RegIds, arn \in Arns :
       RegisterInvoke(r, [json |-> TRUE, resourceArn |-> arn])
  \/ RegisterSteps
  \/ \E arn \in SampleArns, records \in 1..MaxBatch : SampleInvoke(arn, records)
  \/ SampleQuery
  \/ SamplePutRecord
  \/ SamplePutRecordRejected
SpecSample == InitBase /\ [][NextSample]_vars

\* Subscription requests.
NextSub ==
  \/ \E l \in AgentIdSet, p \in AgentIdSet : putSubscription(l, p)
  \/ Tick
SpecSub == InitBase /\ [][NextSub]_vars

\* The aggregator on a stream of events, the Subscription Index fixed.
SeedSubs ==
  {S \in SUBSET {SubscriptionItem(l, p) : l \in AgentIdSet, p \in ProducerIds} :
     Cardinality(S) <= MaxSubs}
InitAgg ==
  /\ now = 0 /\ agents = {} /\ queues = <<>> /\ kinesis = <<>>
  /\ subEvents = {} /\ feed = <<>>
  /\ reg = [r \in RegIds |-> IdleReg] /\ agg = IdleAgg(0) /\ pub = IdlePub(0)
  /\ api = [calls |-> 0, requests |-> 0, listenerId |-> NoId,
            producerId |-> NoId, statusCode |-> 0, before |-> {},
            error |-> "none"]
  /\ client = [responses |-> {}]
  /\ aggB = IdleAgg(0)
  /\ sample = IdleSample
  /\ subs \in SeedSubs
NextAgg ==
  \/ \E e \in Events : sendEventToKinesis(e)
  \/ AggregatorSteps
  \/ AggregatorBatchWriteRejected
  \/ AggregatorThrow
  \/ AggregatorRedeliver
SpecAgg == InitAgg /\ [][NextAgg]_vars

\* The aggregator's store calls, counted: batches of any size, the empty
\* one included; a write that names a key twice is refused and the batch
\* comes again.
NextAggCalls ==
  \/ \E e \in Events : sendEventToKinesis(e)
  \/ AggregatorInvokeEmpty
  \/ AggregatorSteps
  \/ AggregatorBatchWriteRejected
  \/ AggregatorRedeliver
SpecAggCalls == InitAgg /\ [][NextAggCalls]_vars

\* The aggregator on a stream that may hold records that are not JSON; a
\* failed batch is delivered again.
NextPoison ==
  \/ \E e \in Events : sendEventToKinesis(e)
  \/ \E k \in ProducerIds : putMalformedRecord(k)
  \/ AggregatorSteps
  \/ AggregatorRedeliver
SpecPoison == InitAgg /\ [][NextPoison]_vars

\* Two shards: producer 1's events are on the first, producer 2's on the
\* second; agent 1 is subscribed to both producers, agent 2 to producer 1.
InitShards ==
  /\ now = 0 /\ agents = {} /\ queues = <<>> /\ kinesis = <<>>
  /\ subEvents = {} /\ feed = <<>>
  /\ reg = [r \in RegIds |-> IdleReg] /\ agg = IdleAgg(0) /\ pub = IdlePub(0)
  /\ api = [calls |-> 0, requests |-> 0, listenerId |-> NoId,
            producerId |-> NoId, statusCode |-> 0, before |-> {},
            error |-> "none"]
  /\ client = [responses |-> {}]
  /\ aggB = IdleAgg(0)
  /\ sample = IdleSample
  /\ subs = {SubscriptionItem(1, 1), SubscriptionItem(2, 1), SubscriptionItem(1, 2)}
NextShards ==
  \/ \E e \in {x \in Events : x.producerId = 1} : sendEventToKinesis(e)
  \/ AggregatorSteps
  \/ \E batch \in ShardBBatches : AggregatorInvokeB(batch)
  \/ AggregatorQueryB
  \/ AggregatorBatchWriteB
SpecShards == InitShards /\ [][NextShards]_vars

\* The aggregator on records that entered through POST /events.
NextIngress ==
  \/ \E body \in EventBodies : putEventRecord(body)
  \/ AggregatorSteps
SpecIngress == InitAgg /\ [][NextIngress]_vars

\* The publisher on items put into SubEventsTable; agents 1 and 2 registered.
SeedArn(i) == IF i = 1 THEN "arn:aws:test:producer-resource" ELSE "arn:aws:test:listener-resource"
SeedAgents ==
  {[resourceArn |-> SeedArn(i), agentId |-> i,
    queueUrl |-> QueueUrlOf(QueueName(i)), createdAt |-> 0] : i \in {1, 2}}
SeedQueues ==
  [u \in {QueueUrlOf(QueueName(i)) : i \in {1, 2}} |->
     [EmptyQueue EXCEPT !.policy =
        (CHOOSE a \in SeedAgents : a.queueUrl = u).resourceArn]]
InitPub ==
  /\ now = 0 /\ agents = SeedAgents /\ queues = SeedQueues /\ subs = {}
  /\ kinesis = <<>> /\ subEvents = {} /\ feed = <<>>
  /\ reg = [r \in RegIds |-> IdleReg] /\ agg = IdleAgg(0) /\ pub = IdlePub(0)
  /\ api = [calls |-> 0, requests |-> 0, listenerId |-> NoId,
            producerId |-> NoId, statusCode |-> 0, before |-> {},
            error |-> "none"]
  /\ client = [responses |-> {}]
  /\ aggB = IdleAgg(0)
  /\ sample = IdleSample
\* Subscribe requests while agents 1 and 2 are registered and the other
\* ids are not.
SpecSubAgents == InitPub /\ [][NextSub]_vars

NextPub ==
  \/ \E s \in AgentIdSet, t \in Timestamps, d \in Payloads : addSubEvent(s, t, d)
  \/ PublisherSteps
  \/ PublisherThrow
  \/ PublisherRedeliver
  \/ Tick
SpecPub == InitPub /\ [][NextPub]_vars

\* The publisher, no call failing, on a table whose items may be deleted
\* before the stream record of their insert is processed.
NextPubSkip ==
  \/ \E s \in AgentIdSet, t \in Timestamps, d \in Payloads : addSubEvent(s, t, d)
  \/ \E item \in subEvents : DeleteSubEvent(item)
  \/ PublisherSteps
SpecPubSkip == InitPub /\ [][NextPubSkip]_vars

\* Subscribe requests whose PutItem may fail.
NextSubFail ==
  \/ \E l \in AgentIdSet, p \in AgentIdSet : putSubscription(l, p)
  \/ \E l \in AgentIdSet, p \in AgentIdSet, err \in PutItemErrors :
       putSubscriptionFailed(l, p, err)
SpecSubFail == InitPub /\ [][NextSubFail]_vars

\* The publisher on stream records of every kind, the empty batch included.
NextPubFilter ==
  \/ \E s \in {1, 2}, t \in Timestamps : addSubEvent(s, t, "d1")
  \/ \E record \in StreamRecords : StreamNotify(record)
  \/ PublisherInvokeEmpty
  \/ PublisherSteps
SpecPubFilter == InitPub /\ [][NextPubFilter]_vars

\* The publisher on notifications whose images need not be what the table
\* holds; the table and the agents do not change.
NotifyRecords ==
  [eventName : {"INSERT", "MODIFY"},
   NewImage : [subscriberId : {1, 2}, timestamp : Timestamps, data : {"d1"}]]
SeedItems ==
  {[subscriberId |-> 1, timestamp |-> 1, data |-> "d1"],
   [subscriberId |-> 1, timestamp |-> 2, data |-> "d2"],
   [subscriberId |-> 2, timestamp |-> 2, data |-> "d2"]}
InitNotify ==
  /\ now = 0 /\ agents = SeedAgents /\ queues = SeedQueues /\ subs = {}
  /\ kinesis = <<>> /\ feed = <<>>
  /\ reg = [r \in RegIds |-> IdleReg] /\ agg = IdleAgg(0) /\ pub = IdlePub(0)
  /\ api = [calls |-> 0, requests |-> 0, listenerId |-> NoId,
            producerId |-> NoId, statusCode |-> 0, before |-> {},
            error |-> "none"]
  /\ client = [responses |-> {}]
  /\ aggB = IdleAgg(0)
  /\ sample = IdleSample
  /\ subEvents \in SUBSET SeedItems
NextNotify ==
  \/ \E record \in NotifyRecords : StreamNotify(record)
  \/ PublisherSteps
  \/ Tick
SpecNotify == InitNotify /\ [][NextNotify]_vars

\* The whole pipeline for one producer and one listener: agent 1 emits
\* events stamped with its clock, agent 2 is subscribed to agent 1, both
\* are registered; no call fails.
PipeEvents == [producerId : {1}, timestamp : 1..(MaxTs + 1), data : {"d1"}]
\* The sample agent stamps each event with new Date(): later events carry
\* later timestamps.
AgentEmit(event) ==
  /\ \A i \in 1..Len(kinesis) : JsonParse(kinesis[i].data).timestamp < event.timestamp
  /\ sendEventToKinesis(event)
InitPipe ==
  /\ now = 0 /\ agents = SeedAgents /\ queues = SeedQueues
  /\ subs = {SubscriptionItem(2, 1)}
  /\ kinesis = <<>> /\ subEvents = {} /\ feed = <<>>
  /\ reg = [r \in RegIds |-> IdleReg] /\ agg = IdleAgg(0) /\ pub = IdlePub(0)
  /\ api = [calls |-> 0, requests |-> 0, listenerId |-> NoId,
            producerId |-> NoId, statusCode |-> 0, before |-> {},
            error |-> "none"]
  /\ client = [responses |-> {}]
  /\ aggB = IdleAgg(0)
  /\ sample = IdleSample
NextPipe ==
  \/ \E e \in PipeEvents : AgentEmit(e)
  \/ AggregatorSteps
  \/ PublisherSteps
  \/ Tick
SpecPipe == InitPipe /\ [][NextPipe]_vars

\* The pipeline with a batch that is processed again after it was fully
\* processed: agents 1 and 2 emit, each with increasing timestamps, and
\* agent 2 is subscribed to both.
RedoEvents ==
  {[producerId |-> 1, timestamp |-> t, data |-> "d1"] : t \in Timestamps}
    \cup {[producerId |-> 2, timestamp |-> t, data |-> "d2"] : t \in Timestamps}
EmitInOrder(event) ==
  /\ \A i \in 1..Len(kinesis) :
       kinesis[i].partitionKey = event.producerId
         => JsonParse(kinesis[i].data).timestamp < event.timestamp
  /\ sendEventToKinesis(event)
InitRedo ==
  /\ now = 0 /\ agents = SeedAgents /\ queues = SeedQueues
  /\ subs = {SubscriptionItem(2, 1), SubscriptionItem(2, 2)}
  /\ kinesis = <<>> /\ subEvents = {} /\ feed = <<>>
  /\ reg = [r \in RegIds |-> IdleReg] /\ agg = IdleAgg(0) /\ pub = IdlePub(0)
  /\ api = [calls |-> 0, requests |-> 0, listenerId |-> NoId,
            producerId |-> NoId, statusCode |-> 0, before |-> {},
            error |-> "none"]
  /\ client = [responses |-> {}]
  /\ aggB = IdleAgg(0)
  /\ sample = IdleSample
NextRedo ==
  \/ \E e \in RedoEvents : EmitInOrder(e)
  \/ AggregatorSteps
  \/ AggregatorResultLost
  \/ AggregatorRedeliver
  \/ PublisherSteps
  \/ Tick
SpecRedo == InitRedo /\ [][NextRedo]_vars

\* The end-to-end scenario: register the producer, register the listener,
\* subscribe the listener to the producer, emit one event of the producer.
ArnP == "arn:aws:test:producer-resource"
ArnL == "arn:aws:test:listener-resource"
Registered(arn) ==
  {x \in client.responses : x.arn = arn /\ x.statusCode = 200}

E2ERegisterProducer ==
  /\ api.calls = 0
  /\ RegisterInvoke(1, [json |-> TRUE, resourceArn |-> ArnP])
E2ERegisterListener ==
  /\ api.calls = 1 /\ Registered(ArnP) # {}
  /\ RegisterInvoke(1, [json |-> TRUE, resourceArn |-> ArnL])
E2ESubscribe ==
  /\ api.requests = 0
  /\ \E P \in Registered(ArnP), L \in Registered(ArnL) :
       putSubscription(L.agentId, P.agentId)
E2EEmit ==
  /\ api.requests = 1 /\ kinesis = <<>>
  /\ \E P \in Registered(ArnP), t \in Timestamps, d \in Payloads :
       sendEventToKinesis([producerId |-> P.agentId, timestamp |-> t, data |-> d])
E2EClient ==
  \/ E2ERegisterProducer
  \/ E2ERegisterListener
  \/ E2ESubscribe
  \/ E2EEmit

\* Both identities are new: the lookup never finds an item.
RegisterFresh ==
  \E r \in RegIds :
    \/ RegisterNew(r)
    \/ RegisterCreateQueue(r)
    \/ RegisterSetPolicy(r)
    \/ RegisterPut(r)
    \/ RegisterReturn(r)

NextE2E ==
  \/ E2EClient
  \/ RegisterFresh
  \/ AggregatorSteps
  \/ PublisherSteps
  \/ Tick
\* Every handler that has been triggered runs to its end; the caller goes on.
FairE2E ==
  /\ WF_vars(E2EClient)
  /\ WF_vars(RegisterFresh)
  /\ WF_vars(AggregatorSteps)
  /\ WF_vars(PublisherSteps)
SpecE2E == InitBase /\ [][NextE2E]_vars /\ FairE2E

\* ================================================================ claims

\* ---------------------------------------------------------------- C3
OkResponses == {x \in client.responses : x.statusCode = 200}

\* C3 (SpecRegSeq): register calls made one after the other that succeed
\* for the same identity return the same agentId and the same queueUrl, and
\* a call made after a success creates no queue and writes no Agent item.
C3_IdempotentRegistration ==
  /\ \A x, y \in OkResponses :
       x.arn = y.arn => x.agentId = y.agentId /\ x.queueUrl = y.queueUrl
  /\ \A x \in OkResponses : x.prior => ~x.created /\ ~x.wrote
  /\ \A r \in RegIds : reg[r].prior => ~reg[r].created /\ ~reg[r].wrote

\* A second call for a registered identity has answered 200.
C3_Witness ==
  \E x, y \in OkResponses :
    x.arn = y.arn /\ x.wrote /\ x.created /\ y.prior

\* ---------------------------------------------------------------- C4
\* C4 (SpecReg): at most one Agent item per identity, also when two register
\* calls for one new identity interleave, and all callers of an identity
\* obtain the same agentId and queueUrl.
C4_IdentityUnique ==
  /\ \A a, b \in agents : a.resourceArn = b.resourceArn => a = b
  /\ \A x, y \in OkResponses :
       x.arn = y.arn => x.agentId = y.agentId /\ x.queueUrl = y.queueUrl

\* ---------------------------------------------------------------- C5
Occurrences(seq, v) == Cardinality({i \in 1..Len(seq) : seq[i] = v})

\* C5 (SpecSub): every subscribe succeeds; afterwards the index holds one
\* item for the pair and listSubscribers names the subscriber once; a
\* subscribe for a pair already present leaves the index as it was.
C5_IdempotentSubscription ==
  api.requests > 0 =>
    /\ api.statusCode = 200
    /\ Cardinality({x \in subs : x.producerId = api.producerId
                                 /\ x.subscriberId = api.listenerId}) = 1
    /\ Occurrences(listSubscribers(api.producerId), api.listenerId) = 1
    /\ ((\E x \in api.before : x.producerId = api.producerId
                                 /\ x.subscriberId = api.listenerId)
          => subs = api.before)

\* The pair was subscribed again while the producer had another subscriber.
C5_Witness ==
  /\ api.requests >= 2
  /\ \E x \in api.before : x.producerId = api.producerId
                            /\ x.subscriberId = api.listenerId
  /\ Len(listSubscribers(api.producerId)) >= 2
  /\ now > 0

\* ---------------------------------------------------------------- C2
\* Timestamps carried by the records of a batch, with multiplicity.
TimestampUses(batch, t) ==
  Cardinality({i \in 1..Len(batch) : JsonParse(batch[i].data).timestamp = t})

RecordsAt(subscriberId, timestamp) ==
  {x \in subEvents : x.subscriberId = subscriberId /\ x.timestamp = timestamp}

\* C2 (SpecAgg): after a successful invocation, for every event of the batch
\* (the only one carrying its timestamp) and every subscriber the lookup for
\* its producer returned, SubEventsTable holds exactly one item keyed
\* (subscriber, event timestamp), with the event's timestamp and data.
C2_FanOutComplete ==
  agg.pc = "done" =>
    \A i \in 1..Len(agg.groups) :
      \A j \in 1..Len(agg.groups[i].records) :
        LET e == agg.groups[i].records[j] IN
          TimestampUses(agg.batch, e.timestamp) = 1 =>
            \A s \in SeqToSet(agg.reads[i].subs) :
              /\ Cardinality(RecordsAt(s, e.timestamp)) = 1
              /\ \A x \in RecordsAt(s, e.timestamp) :
                   x.timestamp = e.timestamp /\ x.data = e.data

\* One event fanned out to two subscribers.
C2_Witness ==
  /\ agg.pc = "done"
  /\ Len(agg.batch) = 1
  /\ Len(agg.reads[1].subs) = 2
  /\ \A s \in SeqToSet(agg.reads[1].subs) :
       \E x \in subEvents :
         x.subscriberId = s /\ x.data = JsonParse(agg.batch[1].data).data

\* ---------------------------------------------------------------- C8
RECURSIVE FanOutGroup(_, _, _)
FanOutGroup(table, subsList, records) ==
  IF subsList = <<>> THEN table
  ELSE FanOutGroup(ApplyPuts(table, <<>>, PutRequests(Head(subsList), records)).table,
                   Tail(subsList), records)

RECURSIVE FanOut(_, _)
FanOut(table, groups) ==
  IF groups = <<>> THEN table
  ELSE FanOut(FanOutGroup(table, listSubscribers(Head(groups).agentId),
                          Head(groups).records),
              Tail(groups))

\* C8 (SpecAgg): when a batch has been processed successfully, after any
\* number of failed deliveries that wrote part of it, SubEventsTable is what
\* one successful processing of the batch makes of the table the batch
\* first met.
C8_RetryIdempotent ==
  agg.pc = "done" => subEvents = FanOut(agg.store0, agg.groups)

\* A delivery failed after writing for one subscriber only; the next succeeded.
C8_Witness ==
  /\ agg.pc = "done"
  /\ agg.attempt >= 2
  /\ agg.earlier # {}
  /\ agg.written \ agg.earlier # {}

\* ---------------------------------------------------------------- C9
GroupTimestamps(group) ==
  {group.records[j].timestamp : j \in 1..Len(group.records)}

\* C9 (SpecAgg): a successful invocation leaves, for every producer of the
\* batch with k events and m subscribers, k x m items for those subscribers
\* and those events, whatever the events' timestamps.
C9_EventsTimesSubscribers ==
  agg.pc = "done" =>
    \A i \in 1..Len(agg.groups) :
      LET S == SeqToSet(agg.reads[i].subs) IN
        Cardinality({x \in subEvents :
                       x.subscriberId \in S
                       /\ x.timestamp \in GroupTimestamps(agg.groups[i])})
          = Len(agg.groups[i].records) * Cardinality(S)

\* ---------------------------------------------------------------- C10
\* C10 (SpecAgg): a lookup that returns no subscribers (an empty list or no
\* list) writes nothing for that producer and raises no error; the handler
\* goes on to the next producer, and a finished invocation has looked up
\* every producer, written for those with subscribers, and answers 200.
C10_NoSubscriberDrop ==
  /\ \A i \in 1..Len(agg.reads) :
       agg.reads[i].subs = <<>> =>
         /\ \A w \in agg.written : w.agentId # agg.reads[i].agentId
         /\ agg.pc = "done" \/ agg.gi > i
  /\ (agg.pc = "failed" /\ Len(agg.reads) = agg.gi)
       => agg.reads[agg.gi].subs # <<>>
  /\ agg.pc = "done" =>
       /\ agg.statusCode = 200
       /\ Len(agg.reads) = Len(agg.groups)
       /\ \A i \in 1..Len(agg.groups) :
            \A s \in SeqToSet(agg.reads[i].subs) :
              \A j \in 1..Len(agg.groups[i].records) :
                [agentId |-> agg.groups[i].agentId,
                 item |-> SubEventItem(s, agg.groups[i].records[j])]
                  \in agg.written

\* A producer whose lookup had no Items is followed by one with subscribers.
C10_Witness ==
  /\ agg.pc = "done"
  /\ Len(agg.reads) = 2
  /\ agg.reads[1].subs = <<>> /\ ~agg.reads[1].hasItems
  /\ agg.reads[2].subs # <<>>
  /\ agg.written # {}

\* ---------------------------------------------------------------- C1
HasInbox(subscriberId) ==
  \E a \in agents : a.agentId = subscriberId /\ a.queueUrl \in DOMAIN queues

InboxOf(subscriberId) ==
  queues[(CHOOSE a \in agents : a.agentId = subscriberId).queueUrl].msgs

Enqueued(subscriberId, timestamp) ==
  \E i \in 1..Len(InboxOf(subscriberId)) :
    \E j \in 1..Len(InboxOf(subscriberId)[i].body.events) :
      InboxOf(subscriberId)[i].body.events[j].timestamp = timestamp

\* C1 (SpecPub): no silent loss.  Once the publisher has acknowledged every
\* stream record (failed invocations having been redelivered), every item
\* inserted for a subscriber that has an inbox is in a dispatch batch of
\* that inbox, however the stream cut the inserts into invocations.
C1_NoSilentLoss ==
  (pub.pc = "idle" /\ pub.pos = Len(feed)) =>
    \A i \in 1..Len(feed) :
      (IsInsert(feed[i]) /\ HasInbox(feed[i].NewImage.subscriberId)) =>
        Enqueued(feed[i].NewImage.subscriberId, feed[i].NewImage.timestamp)

\* ---------------------------------------------------------------- C7
\* C7 (SpecPub): deduplicated redelivery.  An inbox never holds two messages
\* that come from deliveries of the same stream batch and carry the same
\* list of records.
C7_NoDuplicateBatch ==
  \A u \in DOMAIN queues :
    \A i, j \in 1..Len(queues[u].msgs) :
      (i < j /\ queues[u].msgs[i].delivery.pos = queues[u].msgs[j].delivery.pos)
        => queues[u].msgs[i].body.events # queues[u].msgs[j].body.events

\* ---------------------------------------------------------------- C6
\* The listener's inbox holds exactly one dispatch batch, of exactly one
\* event, whose data is the data emitted.
E2EDelivered ==
  /\ Len(kinesis) = 1
  /\ \E L \in Registered(ArnL) :
       /\ L.queueUrl \in DOMAIN queues
       /\ Len(queues[L.queueUrl].msgs) = 1
       /\ LET body == queues[L.queueUrl].msgs[1].body IN
            /\ body.subscriberId = L.agentId
            /\ Len(body.events) = 1
            /\ body.events[1].data = JsonParse(kinesis[1].data).data
            /\ body.events[1].timestamp = JsonParse(kinesis[1].data).timestamp

\* C6 (SpecE2E): after the two registrations, the subscription and one event
\* of the producer, the listener's inbox eventually holds, and from then on
\* keeps holding, exactly one dispatch batch with exactly that event.
C6_EndToEnd == <>[]E2EDelivered

\* The batch has been delivered and the publisher has acknowledged.
C6_Witness == E2EDelivered /\ pub.pc = "idle" /\ pub.pos = Len(feed) /\ now > 0

\* --------------------------------------------------------------- C11
\* The timestamps of the insert notifications for a subscriber among the n
\* stream records delivered after position pos.
NotifiedTimestamps(pos, n, subscriberId) ==
  {feed[i].NewImage.timestamp :
     i \in {j \in (pos + 1)..(pos + n) :
              IsInsert(feed[j]) /\ feed[j].NewImage.subscriberId = subscriberId}}

StoredTimestamps(subscriberId) ==
  {x.timestamp : x \in {y \in subEvents : y.subscriberId = subscriberId}}

EventTimestamps(events) == {events[j].timestamp : j \in 1..Len(events)}

\* C11 (SpecPub): when one stream batch notifies the inserts of a subscriber's
\* two records, at t1 < t2, and these are the records the subscriber has, the
\* message enqueued for that batch holds two events, one with timestamp t1
\* and one with timestamp t2, both of that subscriber.
C11_OrderingWithinDispatch ==
  \A u \in DOMAIN queues :
    \A i \in 1..Len(queues[u].msgs) :
      LET m == queues[u].msgs[i]
          s == m.body.subscriberId
          T == NotifiedTimestamps(m.delivery.pos, m.delivery.n, s)
      IN (Cardinality(T) = 2 /\ StoredTimestamps(s) = T) =>
           /\ Len(m.body.events) = 2
           /\ EventTimestamps(m.body.events) = T
           /\ \A j \in 1..2 : m.body.events[j].subscriberId = s

\* A message was enqueued for a batch of two inserts of one subscriber.
C11_Witness ==
  \E u \in DOMAIN queues :
    \E i \in 1..Len(queues[u].msgs) :
      LET m == queues[u].msgs[i]
          s == m.body.subscriberId
          T == NotifiedTimestamps(m.delivery.pos, m.delivery.n, s)
      IN /\ Cardinality(T) = 2 /\ StoredTimestamps(s) = T
         /\ m.delivery.n = 2
         /\ EventTimestamps(m.body.events) = {1, 2}

\* --------------------------------------------------------------- C12
Min(a, b) == IF a < b THEN a ELSE b

\* The history read of the step: what the handler holds as sortedEvents
\* against the store it was read from.
ReadIsLatest(subscriberId, n, events) ==
  LET mine == {x \in subEvents : x.subscriberId = subscriberId} IN
    /\ Len(events) = Min(n, Cardinality(mine))
    /\ Len(events) <= n
    /\ \A j \in 1..Len(events) : events[j] \in mine
    /\ \A j, k \in 1..Len(events) :
         j < k => events[j].timestamp > events[k].timestamp
    /\ \A x \in mine :
         (\A j \in 1..Len(events) : events[j] # x)
           => \A j \in 1..Len(events) : x.timestamp < events[j].timestamp

\* C12 (SpecPub): for a subscriber with n insert notifications in the batch,
\* the history read yields exactly the min(n, stored) most recent records of
\* the subscriber as stored at the read, newest first (strictly descending by
\* timestamp), never more than n; the message then enqueued carries exactly
\* that list.
C12_DispatchBatchContent ==
  [][/\ (pub.pc = "query" /\ Len(pub'.log) = Len(pub.log) + 1)
        => ReadIsLatest(pub.order[pub.k],
                        EventCount(pub.batch, pub.order[pub.k]),
                        pub'.sortedEvents)
     /\ (pub.pc = "send" /\ Len(pub'.log) = Len(pub.log) + 1
           /\ Len(queues'[pub.queueUrl].msgs) > Len(queues[pub.queueUrl].msgs))
        => LET msgs == queues'[pub.queueUrl].msgs IN
             /\ msgs[Len(msgs)].body.events = pub.sortedEvents
             /\ Len(msgs[Len(msgs)].body.events)
                  <= EventCount(pub.batch, pub.order[pub.k])
    ]_vars

\* A message of one event was enqueued for one notification while the
\* subscriber had two records: the event is the newer record.
C12_Witness ==
  /\ pub.pc = "done"
  /\ Len(pub.batch) = 1
  /\ \E c \in SeqToSet(pub.log) :
       /\ c.op = "send" /\ c.found = 1
       /\ Cardinality(StoredTimestamps(c.subscriberId)) = 2
       /\ \E i \in 1..Len(queues[c.queueUrl].msgs) :
            LET m == queues[c.queueUrl].msgs[i] IN
              /\ m.delivery.pos = pub.pos /\ m.delivery.attempt = pub.attempt
              /\ Len(m.body.events) = 1
              /\ m.body.events[1].timestamp = 2

\* --------------------------------------------------------------- C13
\* C13 (SpecAgg): record immutability.  An item of SubEventsTable stays in
\* the table as it is in every later state, whatever the aggregator is
\* given next.
C13_RecordsImmutable ==
  [][\A x \in subEvents : x \in subEvents']_vars

\* --------------------------------------------------------------- C14
\* C14 (SpecPub): every message in the queue recorded for an agent names
\* that agent as subscriberId and carries only records of that agent.
C14_CorrectInbox ==
  \A a \in agents :
    a.queueUrl \in DOMAIN queues =>
      \A i \in 1..Len(queues[a.queueUrl].msgs) :
        LET body == queues[a.queueUrl].msgs[i].body IN
          /\ body.subscriberId = a.agentId
          /\ \A j \in 1..Len(body.events) :
               body.events[j].subscriberId = a.agentId

\* One invocation has enqueued for two subscribers, each into its own queue.
C14_Witness ==
  /\ pub.pc = "done"
  /\ \A a \in agents :
       /\ a.queueUrl \in DOMAIN queues
       /\ \E i \in 1..Len(queues[a.queueUrl].msgs) :
            /\ queues[a.queueUrl].msgs[i].delivery.pos = pub.pos
            /\ queues[a.queueUrl].msgs[i].body.subscriberId = a.agentId

\* --------------------------------------------------------------- C15
\* The SendMessage calls of the invocation for one subscriber.
Sends(subscriberId) ==
  {i \in 1..Len(pub.log) :
     pub.log[i].op = "send" /\ pub.log[i].subscriberId = subscriberId}

\* C15 (SpecPub): in an invocation that ends with 200, a subscriber with at
\* least one insert notification, a stored record and a registered inbox is
\* sent exactly one message, to its inbox, with MessageGroupId = subscriberId;
\* a subscriber with no insert notification is sent none.
C15_OneMessagePerSubscriber ==
  pub.pc = "done" =>
    /\ \A s \in AgentIdSet :
         /\ (EventCount(pub.batch, s) >= 1 /\ StoredTimestamps(s) # {} /\ HasInbox(s))
              => /\ Cardinality(Sends(s)) = 1
                 /\ \A i \in Sends(s) :
                      /\ pub.log[i].groupId = s
                      /\ \E a \in agents :
                           a.agentId = s /\ a.queueUrl = pub.log[i].queueUrl
         /\ EventCount(pub.batch, s) = 0 => Sends(s) = {}
    /\ \A u \in DOMAIN queues :
         \A i \in 1..Len(queues[u].msgs) :
           queues[u].msgs[i].groupId = queues[u].msgs[i].body.subscriberId

\* Two insert notifications of one subscriber gave one message; the stream
\* has nothing for the other registered subscriber.
C15_Witness ==
  /\ pub.pc = "done"
  /\ \E s \in AgentIdSet :
       /\ EventCount(pub.batch, s) = 2
       /\ Cardinality(Sends(s)) = 1
       /\ \E i \in 1..Len(InboxOf(s)) :
            /\ InboxOf(s)[i].delivery.pos = pub.pos
            /\ InboxOf(s)[i].groupId = s
            /\ Len(InboxOf(s)[i].body.events) = 2
       /\ \E t \in AgentIdSet : t # s /\ HasInbox(t) /\ Sends(t) = {}

\* --------------------------------------------------------------- C16
\* The position in the batch's groups of the producer an item was written for.
GroupIndex(agentId) ==
  CHOOSE i \in 1..Len(agg.groups) : agg.groups[i].agentId = agentId

\* C16 (SpecAgg): when a subscriber query or a batch write of the invocation
\* has failed, the invocation has failed without a 200 and its batch is still
\* the next of the shard; it made no query after the failing call and wrote
\* for no subscriber or producer after it; and every item it wrote before is
\* still stored under its key.
C16_AggregatorAbort ==
  agg.failedAt \in {"query", "write"} =>
    /\ agg.pc = "failed" /\ agg.statusCode # 200
    /\ SubSeq(kinesis, agg.pos + 1, agg.pos + Len(agg.batch)) = agg.batch
    /\ Len(agg.reads) = (IF agg.failedAt = "query" THEN agg.gi - 1 ELSE agg.gi)
    /\ \A w \in agg.written :
         /\ GroupIndex(w.agentId) <= agg.gi
         /\ GroupIndex(w.agentId) = agg.gi =>
              /\ agg.failedAt = "write"
              /\ \E j \in 1..(agg.si - 1) :
                   agg.subsList[j] = w.item.subscriberId
         /\ \E x \in subEvents :
              /\ SubEventKey(x) = SubEventKey(w.item)
              /\ \E v \in agg.written : v.item = x

\* The write for a producer's second subscriber failed after the write for
\* its first subscriber.
C16_Witness ==
  /\ agg.failedAt = "write"
  /\ agg.si = 2
  /\ agg.written # {}
  /\ \A w \in agg.written : w.item \in subEvents
  /\ ~HasDuplicateKeys(PutRequests(agg.subsList[agg.si], agg.groups[agg.gi].records))

\* --------------------------------------------------------------- C17
\* The calls an invocation p made for one subscriber.
OpsFor(p, subscriberId) ==
  {c.op : c \in {d \in SeqToSet(p.log) : d.subscriberId = subscriberId}}

\* What a failed invocation p has done: it fails without a 200, it made for
\* the subscriber at hand only the calls before the failing one, and none
\* for the subscribers after it.
Aborted(p) ==
  /\ p.pc = "failed" /\ p.statusCode # 200
  /\ OpsFor(p, p.order[p.k]) =
       (IF p.failedAt = "query" THEN {}
        ELSE IF p.failedAt = "getAgent" THEN {"query"}
        ELSE {"query", "get"})
  /\ \A j \in (p.k + 1)..Len(p.order) : OpsFor(p, p.order[j]) = {}

\* C17 (SpecPub): when the history read, the registry lookup or the enqueue
\* fails for a subscriber, the invocation fails and its batch stays the next
\* of the stream; no call is made for that subscriber's later steps or for a
\* later subscriber; and the failure, and the time until the redelivery,
\* leave every queue with the messages already enqueued.
C17_PublisherAbort ==
  [][/\ pub'.failedAt # "none" =>
          /\ Aborted(pub')
          /\ SubSeq(feed', pub'.pos + 1, pub'.pos + Len(pub'.batch)) = pub'.batch
     /\ (pub'.failedAt # "none" \/ pub.failedAt # "none") =>
          \A u \in DOMAIN queues :
            /\ u \in DOMAIN queues'
            /\ queues'[u].msgs = queues[u].msgs
    ]_vars

\* The invocation failed at its second subscriber after enqueueing for the
\* first, whose message is in its inbox.
C17_Witness ==
  /\ pub.failedAt = "send"
  /\ pub.k = 2
  /\ Sends(pub.order[1]) # {}
  /\ \E i \in 1..Len(InboxOf(pub.order[1])) :
       /\ InboxOf(pub.order[1])[i].delivery.pos = pub.pos
       /\ InboxOf(pub.order[1])[i].delivery.attempt = pub.attempt

\* --------------------------------------------------------------- C18
\* The call that returned last was a history read with no records, or a
\* registry lookup with no queueUrl.
SkipsAtQuery(c) == c.op = "query" /\ c.found = 0
SkipsAtGet(c) == c.op = "get" /\ c.queueUrl = NoUrl

\* C18 (SpecPubSkip): a history read that returns no records goes to the
\* next subscriber without a registry lookup, and so does a lookup that
\* finds no queueUrl; either step leaves SubEventsTable, its stream and all
\* queues as they are, no message is sent for that subscriber later in the
\* invocation, every subscriber of the batch is still read, and the
\* invocation ends with 200.
C18_PublisherSkip ==
  [][/\ Len(pub'.log) = Len(pub.log) + 1 =>
          LET c == pub'.log[Len(pub'.log)] IN
            (SkipsAtQuery(c) \/ SkipsAtGet(c)) =>
              /\ c.subscriberId = pub.order[pub.k]
              /\ SkipsAtQuery(c) => pub.pc = "query"
              /\ subEvents' = subEvents /\ feed' = feed /\ queues' = queues
              /\ \/ pub.k < Len(pub.order) /\ pub'.pc = "query" /\ pub'.k = pub.k + 1
                 \/ pub.k = Len(pub.order) /\ pub'.pc = "done"
     /\ \A c \in SeqToSet(pub'.log) :
          /\ SkipsAtQuery(c) => OpsFor(pub', c.subscriberId) = {"query"}
          /\ SkipsAtGet(c) => OpsFor(pub', c.subscriberId) = {"query", "get"}
     /\ pub'.pc # "failed"
     /\ pub'.pc = "done" =>
          /\ pub'.statusCode = 200
          /\ \A j \in 1..Len(pub'.order) : "query" \in OpsFor(pub', pub'.order[j])
    ]_vars

\* An invocation returned 200 after skipping its first subscriber, whose
\* records were gone, and its second, which has no agent item.
C18_Witness ==
  /\ pub.pc = "done" /\ pub.statusCode = 200
  /\ Len(pub.order) = 2
  /\ Len(pub.log) = 3
  /\ SkipsAtQuery(pub.log[1]) /\ HasInbox(pub.log[1].subscriberId)
  /\ SkipsAtGet(pub.log[3])
  /\ \A u \in DOMAIN queues : queues[u].msgs = <<>>

\* --------------------------------------------------------------- C19
\* C19 (SpecRegSeq): with register attempts made one after the other, any of
\* whose calls may fail, the table never holds two items of one identity,
\* all 200 responses for an identity carry one agentId and one queueUrl, and
\* every item refers to an existing queue whose policy names its identity
\* (queues left by failed attempts belong to no item).
C19_RetrySafety ==
  /\ \A a, b \in agents : a.resourceArn = b.resourceArn => a = b
  /\ \A x, y \in OkResponses :
       x.arn = y.arn => x.agentId = y.agentId /\ x.queueUrl = y.queueUrl
  /\ \A a \in agents :
       /\ a.queueUrl \in DOMAIN queues
       /\ queues[a.queueUrl].policy = a.resourceArn

\* An attempt that had created its queue failed; a later attempt for the
\* identity succeeded and wrote the item; the first queue is an orphan.
C19_Witness ==
  /\ \E x, y \in client.responses :
       /\ x.arn = y.arn
       /\ x.statusCode = 500 /\ x.created /\ ~x.wrote
       /\ y.statusCode = 200 /\ y.wrote
  /\ \E u \in DOMAIN queues : \A a \in agents : a.queueUrl # u

\* --------------------------------------------------------------- C20
\* Failures before the PutCommand: the body does not parse, or the lookup,
\* the queue creation or the policy grant rejects.
EarlyFailures == {"parse", "query", "createQueue", "setPolicy"}

\* C20 (SpecReg): a register call that fails before the PutCommand ends by
\* returning status 500 and has written no Agent item; the items in the
\* table are those of calls that reached the write.
C20_NoPartialAgent ==
  /\ \A r \in RegIds :
       reg[r].failedAt \in EarlyFailures =>
         reg[r].pc = "done" /\ reg[r].statusCode = 500 /\ ~reg[r].wrote
  /\ \A x \in client.responses :
       x.failedAt \in EarlyFailures => x.statusCode = 500 /\ ~x.wrote
  /\ \A a \in agents :
       \/ \E x \in client.responses : x.arn = a.resourceArn /\ x.wrote
       \/ \E r \in RegIds : reg[r].arn = a.resourceArn /\ reg[r].wrote

\* A body that does not parse and a failed policy grant were both answered
\* with 500, and the table has no item for the identity.
C20_Witness ==
  /\ \E x \in client.responses : x.failedAt = "parse" /\ x.statusCode = 500
  /\ \E y \in client.responses :
       /\ y.failedAt = "setPolicy" /\ y.statusCode = 500 /\ y.created
       /\ \A a \in agents : a.resourceArn # y.arn

\* --------------------------------------------------------------- C21
\* The queue a running register call has created for its new agentId.
OwnQueue(r) == QueueUrlOf(QueueName(reg[r].agentId))

\* C21 (SpecReg): a register call for a new identity has its queue before it
\* sets the policy, has the policy naming its resourceArn, and nothing else,
\* before it puts the item, and has put no item before that; so every item
\* of the table refers to an existing queue whose policy names the item's
\* resourceArn.
C21_StepOrder ==
  /\ \A r \in RegIds :
       /\ reg[r].pc \in {"createQueue", "setPolicy", "put"} =>
            /\ ~reg[r].wrote
            /\ \A a \in agents : a.agentId # reg[r].agentId
       /\ reg[r].pc = "createQueue" => OwnQueue(r) \notin DOMAIN queues
       /\ reg[r].pc \in {"setPolicy", "put"} =>
            /\ reg[r].created
            /\ reg[r].queueUrl = OwnQueue(r)
            /\ OwnQueue(r) \in DOMAIN queues
       /\ reg[r].pc = "setPolicy" => queues[OwnQueue(r)].policy = NoArn
       /\ reg[r].pc = "put" => queues[OwnQueue(r)].policy = reg[r].arn
  /\ \A a \in agents :
       /\ a.queueUrl \in DOMAIN queues
       /\ queues[a.queueUrl].policy = a.resourceArn
       /\ a.queueUrl = QueueUrlOf(QueueName(a.agentId))

\* A call has just put the item of a new identity, while another call has
\* its queue but neither policy nor item yet.
C21_Witness ==
  \E r, q \in RegIds :
    /\ reg[r].pc = "done" /\ reg[r].statusCode = 200 /\ reg[r].wrote
    /\ \E a \in agents :
         /\ a.agentId = reg[r].agentId /\ a.resourceArn = reg[r].arn
         /\ queues[a.queueUrl].policy = a.resourceArn
    /\ reg[q].pc = "setPolicy"
    /\ OwnQueue(q) \in DOMAIN queues

\* --------------------------------------------------------------- C22
\* A call whose body parsed and names no identity.
NoIdentity(x) == x.arn \in {"", NoArn} /\ x.failedAt # "parse"

\* C22 (SpecReg): a register call whose body has no resourceArn, or an
\* empty one, ends in the step that receives it, with status 400, leaving
\* AgentsTable and the queues as they are; it never reaches the lookup, has
\* created no queue and written no item, and the caller receives the 400.
C22_InputValidation ==
  [][/\ \A r \in RegIds :
          (reg[r].pc = "idle" /\ reg'[r].pc # "idle" /\ NoIdentity(reg'[r])) =>
            /\ reg'[r].pc = "done" /\ reg'[r].statusCode = 400
            /\ agents' = agents /\ queues' = queues
     /\ \A r \in RegIds :
          NoIdentity(reg'[r]) =>
            /\ reg'[r].pc \in {"idle", "done"}
            /\ ~reg'[r].created /\ ~reg'[r].wrote
     /\ \A x \in client'.responses :
          NoIdentity(x) => x.statusCode = 400 /\ ~x.created /\ ~x.wrote
     /\ \A a \in agents' : a.resourceArn \notin {"", NoArn}
    ]_vars

\* The caller has a 400 for a body without resourceArn and one for an empty
\* resourceArn.
C22_Witness ==
  /\ \E x \in client.responses : x.arn = NoArn /\ x.failedAt = "none" /\ x.statusCode = 400
  /\ \E y \in client.responses : y.arn = "" /\ y.statusCode = 400
  /\ agents = {} /\ DOMAIN queues = {}

\* --------------------------------------------------------------- C23
\* C23 (SpecReg): when the lookup of a register call finds items, the call
\* answers 200 with the agentId and queueUrl of one item of that identity,
\* for the identity it was called with, in a step that leaves AgentsTable
\* and the queues as they are; it has created no queue and written no item;
\* and a lookup that finds items never goes on to create a queue.
C23_ExistingNoSideEffects ==
  [][\A r \in RegIds :
       /\ (reg[r].pc = "query" /\ reg'[r].pc = "done" /\ reg'[r].statusCode = 200) =>
            /\ agents' = agents /\ queues' = queues
            /\ reg'[r].arn = reg[r].arn
            /\ ~reg'[r].created /\ ~reg'[r].wrote
            /\ \E a \in agents :
                 /\ a.resourceArn = reg[r].arn
                 /\ a.agentId = reg'[r].agentId
                 /\ a.queueUrl = reg'[r].queueUrl
       /\ (reg[r].pc = "query" /\ reg'[r].pc = "createQueue") =>
            \A a \in agents : a.resourceArn # reg[r].arn
    ]_vars

\* A call has answered from a lookup that found two items of its identity.
C23_Witness ==
  \E r \in RegIds :
    /\ reg[r].pc = "done" /\ reg[r].statusCode = 200 /\ ~reg[r].wrote
    /\ Cardinality(QueryByResourceArn(reg[r].arn)) = 2

\* --------------------------------------------------------------- C24
\* C24 (SpecSubAgents): a subscribe request for any listener id and any
\* producer id, registered or not, answers 200; after it SubscribersTable
\* holds the item (producerId, subscriberId = listener id); every item
\* that was there before is still there unchanged, and nothing else was
\* added.
IsAgent(id) == \E a \in agents : a.agentId = id
C24_SubscribeFrame ==
  [][api'.requests = api.requests + 1 =>
       /\ api'.statusCode = 200
       /\ \E x \in subs' : x.producerId = api'.producerId
                            /\ x.subscriberId = api'.listenerId
       /\ \A x \in subs :
            (x.producerId # api'.producerId \/ x.subscriberId # api'.listenerId)
              => x \in subs'
       /\ \A x \in subs' \ subs :
            x.producerId = api'.producerId /\ x.subscriberId = api'.listenerId
    ]_vars

\* One producer has two subscribers, one subscriber has two producers, and
\* an id that was never registered takes part as listener and as producer.
C24_Witness ==
  /\ \E x, y \in subs : x.producerId = y.producerId
                         /\ x.subscriberId # y.subscriberId
  /\ \E x, y \in subs : x.subscriberId = y.subscriberId
                         /\ x.producerId # y.producerId
  /\ \E x \in subs : ~IsAgent(x.subscriberId)
  /\ \E x \in subs : ~IsAgent(x.producerId)
  /\ api.statusCode = 200

\* --------------------------------------------------------------- C25
\* C25 (SpecPipe): per-subscriber ordering across batches.  For two events
\* of one producer on the stream, the earlier with the smaller timestamp,
\* and a subscriber with an inbox: if the inbox holds a dispatch batch with
\* the earlier event at all, then no dispatch batch with the later event
\* stands before the first dispatch batch with the earlier one.
BatchHas(subscriberId, m, timestamp) ==
  \E k \in 1..Len(InboxOf(subscriberId)[m].body.events) :
    InboxOf(subscriberId)[m].body.events[k].timestamp = timestamp
C25_OrderAcrossBatches ==
  \A i, j \in 1..Len(kinesis) :
    (/\ i < j
     /\ kinesis[i].partitionKey = kinesis[j].partitionKey
     /\ JsonParse(kinesis[i].data).timestamp < JsonParse(kinesis[j].data).timestamp) =>
      \A s \in {x.subscriberId : x \in subs} :
        HasInbox(s) =>
          \A m2 \in 1..Len(InboxOf(s)) :
            (/\ BatchHas(s, m2, JsonParse(kinesis[j].data).timestamp)
             /\ Enqueued(s, JsonParse(kinesis[i].data).timestamp)) =>
              \E m1 \in 1..m2 :
                BatchHas(s, m1, JsonParse(kinesis[i].data).timestamp)

\* --------------------------------------------------------------- C26
\* C26 (SpecPub): every message the publisher enqueued for a subscriber is
\* in the one queue created for that subscriber at registration (the queue
\* named after its agentId) and carries the subscriberId as group id, so
\* each inbox has a single ordering group; and the messages of an inbox
\* stand in the order of the publisher's sends (stream position, then
\* delivery attempt).
C26_InboxFifo ==
  \A u \in DOMAIN queues :
    /\ \A i \in 1..Len(queues[u].msgs) :
         /\ u = QueueUrlOf(QueueName(queues[u].msgs[i].body.subscriberId))
         /\ queues[u].msgs[i].groupId = queues[u].msgs[i].body.subscriberId
    /\ \A i, j \in 1..Len(queues[u].msgs) :
         i < j =>
           /\ queues[u].msgs[i].groupId = queues[u].msgs[j].groupId
           /\ \/ queues[u].msgs[i].delivery.pos < queues[u].msgs[j].delivery.pos
              \/ /\ queues[u].msgs[i].delivery.pos = queues[u].msgs[j].delivery.pos
                 /\ queues[u].msgs[i].delivery.attempt < queues[u].msgs[j].delivery.attempt

\* Both inboxes hold messages, and one holds two messages sent by
\* invocations on different stream positions.
C26_Witness ==
  /\ \A u \in DOMAIN queues : Len(queues[u].msgs) >= 1
  /\ \E u \in DOMAIN queues :
       \E i, j \in 1..Len(queues[u].msgs) :
         queues[u].msgs[i].delivery.pos < queues[u].msgs[j].delivery.pos

\* --------------------------------------------------------------- C27
\* C27 (SpecAggCalls): an aggregator invocation that returns has queried
\* the subscribers exactly once for each distinct producer of its batch
\* (never for an empty batch), however many events the producer has in the
\* batch, and has sent exactly one BatchWriteCommand for each pair of a
\* producer of the batch and one of its subscribers, holding one put per
\* event of that producer, in the order of the batch.
ProducersOf(batch) ==
  {JsonParse(batch[i].data).producerId : i \in 1..Len(batch)}
EventsOfProducer(batch, producerId) ==
  LET Mine(record) == JsonParse(record.data).producerId = producerId
      mine == SelectSeq(batch, Mine)
  IN [i \in 1..Len(mine) |-> JsonParse(mine[i].data)]
ExpectedPuts(batch, producerId, subscriberId) ==
  LET events == EventsOfProducer(batch, producerId)
  IN [i \in 1..Len(events) |->
        [subscriberId |-> subscriberId, timestamp |-> events[i].timestamp,
         data |-> events[i].data]]
C27_BoundedLookups ==
  agg.pc = "done" =>
    /\ Len(agg.reads) = Cardinality(ProducersOf(agg.batch))
    /\ \A p \in ProducersOf(agg.batch) :
         Cardinality({k \in 1..Len(agg.reads) : agg.reads[k].agentId = p}) = 1
    /\ \A p \in ProducersOf(agg.batch) :
         \A x \in {y \in subs : y.producerId = p} :
           /\ Cardinality({w \in 1..Len(agg.writes) :
                 /\ agg.writes[w].agentId = p
                 /\ agg.writes[w].subscriberId = x.subscriberId}) = 1
           /\ \E w \in 1..Len(agg.writes) :
                 /\ agg.writes[w].agentId = p
                 /\ agg.writes[w].subscriberId = x.subscriberId
                 /\ agg.writes[w].items = ExpectedPuts(agg.batch, p, x.subscriberId)
    /\ \A w \in 1..Len(agg.writes) :
         /\ agg.writes[w].agentId \in ProducersOf(agg.batch)
         /\ \E x \in subs : /\ x.producerId = agg.writes[w].agentId
                             /\ x.subscriberId = agg.writes[w].subscriberId

\* An invocation has returned on a batch of two events of one producer
\* that has two subscribers: one query, two writes of two puts each.
C27_Witness ==
  /\ agg.pc = "done"
  /\ Len(agg.batch) = 2
  /\ Cardinality(ProducersOf(agg.batch)) = 1
  /\ Len(agg.reads) = 1
  /\ Len(agg.writes) = 2
  /\ \A w \in 1..Len(agg.writes) : Len(agg.writes[w].items) = 2
\* An invocation has returned on an empty batch.
C27_EmptyBatch ==
  agg.pc = "done" /\ agg.batch = <<>> /\ agg.reads = <<>> /\ agg.writes = <<>>

\* --------------------------------------------------------------- C28
\* C28 (SpecIngress): every put the aggregator sends for a subscriber is
\* the record of an event of its batch whose own producerId member names a
\* producer that subscriber is subscribed to, whatever the partition key
\* of the stream record is.
C28_FanOutByProducerId ==
  \A w \in 1..Len(agg.writes) :
    \A k \in 1..Len(agg.writes[w].items) :
      \E i \in 1..Len(agg.batch) :
        /\ agg.writes[w].items[k] =
             [subscriberId |-> agg.writes[w].subscriberId,
              timestamp |-> JsonParse(agg.batch[i].data).timestamp,
              data |-> JsonParse(agg.batch[i].data).data]
        /\ \E x \in subs :
             /\ x.producerId = JsonParse(agg.batch[i].data).producerId
             /\ x.subscriberId = agg.writes[w].subscriberId

\* --------------------------------------------------------------- C29
\* C29 (SpecPoison): an invocation on a batch in which some record is not
\* JSON has failed at the parse, with no QueryCommand and no
\* BatchWriteCommand sent, and SubEventsTable is as it was when the batch
\* was first delivered: the valid events of the batch have no item.
HasMalformed(batch) == \E i \in 1..Len(batch) : ~IsJson(batch[i].data)
C29_MalformedAborts ==
  (agg.pc # "idle" /\ HasMalformed(agg.batch)) =>
    /\ agg.pc = "failed" /\ agg.failedAt = "parse"
    /\ agg.statusCode # 200
    /\ agg.reads = <<>> /\ agg.writes = <<>>
    /\ agg.written = {} /\ agg.earlier = {}
    /\ subEvents = agg.store0

\* A batch of a valid event, whose producer has a subscriber, and a record
\* that is not JSON has failed; the subscriber has no item.
C29_Witness ==
  /\ agg.pc = "failed" /\ Len(agg.batch) = 2
  /\ HasMalformed(agg.batch)
  /\ \E i \in 1..Len(agg.batch) :
       /\ IsJson(agg.batch[i].data)
       /\ listSubscribers(JsonParse(agg.batch[i].data).producerId) # <<>>
  /\ subEvents = {}

\* --------------------------------------------------------------- C30
\* C30 (SpecPoison): a batch with a record that is not JSON, once failed,
\* stays failed at the parse through every redelivery: the same batch at
\* the same position, SubEventsTable untouched.  The checkpoint never
\* passes a record that is not JSON, and every item of SubEventsTable is
\* the record of a valid event that stands before the checkpoint or in
\* a batch free of such records.
FromDeliverable(item) ==
  \E i \in 1..Len(kinesis) :
    /\ IsJson(kinesis[i].data)
    /\ item.timestamp = JsonParse(kinesis[i].data).timestamp
    /\ item.data = JsonParse(kinesis[i].data).data
    /\ \E x \in subs : /\ x.producerId = kinesis[i].partitionKey
                        /\ x.subscriberId = item.subscriberId
    /\ \/ i <= agg.pos
       \/ i <= agg.pos + Len(agg.batch) /\ ~HasMalformed(agg.batch)
C30_PoisonNeverProgresses ==
  [][/\ (agg.pc = "failed" /\ HasMalformed(agg.batch)) =>
          /\ agg'.pc = "failed" /\ agg'.failedAt = "parse"
          /\ agg'.batch = agg.batch /\ agg'.pos = agg.pos
          /\ subEvents' = subEvents
     /\ \A i \in 1..Len(kinesis') : ~IsJson(kinesis'[i].data) => agg'.pos < i
     /\ \A item \in subEvents' : FromDeliverable(item)'
    ]_vars

\* A poison batch holding a valid event has been redelivered and failed
\* again; a later valid event waits behind it; both producers have
\* subscribers, and none has an item.
C30_Witness ==
  /\ agg.pc = "failed" /\ agg.attempt >= 2
  /\ HasMalformed(agg.batch) /\ Len(agg.batch) = 2
  /\ \E i \in 1..Len(agg.batch) :
       /\ IsJson(agg.batch[i].data)
       /\ listSubscribers(JsonParse(agg.batch[i].data).producerId) # <<>>
  /\ Len(kinesis) > agg.pos + Len(agg.batch)
  /\ IsJson(kinesis[Len(kinesis)].data)
  /\ listSubscribers(JsonParse(kinesis[Len(kinesis)].data).producerId) # <<>>
  /\ subEvents = {}

\* --------------------------------------------------------------- C31
\* C31 (SpecPubFilter): the publisher reads a subscriber's items with a
\* limit equal to the number of records of its batch that are INSERT, have
\* a NewImage and a subscriberId naming that subscriber, and only when
\* that number is at least one; an invocation on a batch without any such
\* record (REMOVE, MODIFY, INSERT without image or without subscriberId,
\* or no record at all) returns 200 having made no query, no agent lookup
\* and no send.
Qualifying(batch, subscriberId) ==
  {i \in 1..Len(batch) :
     /\ batch[i].eventName = "INSERT"
     /\ batch[i].NewImage # NoImage
     /\ batch[i].NewImage.subscriberId = subscriberId}
Stored(subscriberId) == {x \in subEvents : x.subscriberId = subscriberId}
C31_OnlyOthers ==
  /\ pub.pc = "done" /\ Len(pub.batch) = 2 /\ pub.log = <<>>
  /\ \E i \in 1..2 : pub.batch[i].eventName = "INSERT"
                       /\ pub.batch[i].NewImage # NoImage
  /\ \E i \in 1..2 : pub.batch[i].eventName = "MODIFY"
                       /\ pub.batch[i].NewImage # NoImage
                       /\ pub.batch[i].NewImage.subscriberId = 1
  /\ Stored(1) # {}

\* --------------------------------------------------------------- C32
\* C32 (SpecE2E): single-writer frame.  A step of the aggregator leaves
\* SubscribersTable, AgentsTable and every queue as they are; a step of
\* the publisher leaves every table (and the table's stream) as it is; a
\* step of register leaves SubscribersTable and SubEventsTable as they
\* are; a subscribe request leaves AgentsTable, SubEventsTable and every
\* queue as they are.  No handler appends to the events stream.
C32_SingleWriterFrame ==
  [][/\ agg' # agg =>
          /\ subs' = subs /\ agents' = agents /\ queues' = queues
          /\ kinesis' = kinesis
     /\ pub' # pub =>
          /\ subEvents' = subEvents /\ feed' = feed /\ subs' = subs
          /\ agents' = agents /\ kinesis' = kinesis
     /\ reg' # reg =>
          /\ subs' = subs /\ subEvents' = subEvents /\ feed' = feed
          /\ kinesis' = kinesis
     /\ api'.requests # api.requests =>
          /\ agents' = agents /\ queues' = queues
          /\ subEvents' = subEvents /\ feed' = feed /\ kinesis' = kinesis
    ]_vars

\* Every handler has written: two agents with their queues, a
\* subscription, an item of the subscriber, a message in its inbox.
C32_Witness ==
  /\ Cardinality(agents) = 2 /\ subs # {} /\ subEvents # {}
  /\ \E u \in DOMAIN queues : queues[u].msgs # <<>>
  /\ pub.pc = "done"

\* --------------------------------------------------------------- C33
\* C33 (SpecSubFail): whenever the PutItem behind a subscribe request has
\* failed, the status the caller receives is not 200, the status of a
\* successful subscription.
C33_ErrorsSurfaced ==
  api.error # "none" => api.statusCode # 200

\* --------------------------------------------------------------- C34
\* C34 (SpecAgg): fan-out soundness.  Every item a step puts into
\* SubEventsTable has the timestamp and data of an event of the batch being
\* processed, of a producer for which this invocation has queried the
\* subscribers, and its subscriberId is in the result of that query; so in
\* every state, after failed and half-done invocations too, every item
\* of the table comes from a delivered event of a producer its subscriber
\* is subscribed to.
Delivered == SubSeq(kinesis, 1, agg.pos + Len(agg.batch))
C34_FanOutSound ==
  [][/\ \A item \in subEvents' \ subEvents :
          \E i \in 1..Len(agg.batch), k \in 1..Len(agg.reads) :
            /\ JsonParse(agg.batch[i].data).producerId = agg.reads[k].agentId
            /\ item.subscriberId \in SeqToSet(agg.reads[k].subs)
            /\ item.timestamp = JsonParse(agg.batch[i].data).timestamp
            /\ item.data = JsonParse(agg.batch[i].data).data
     /\ \A item \in subEvents' :
          \E i \in 1..Len(Delivered') :
            /\ item.timestamp = JsonParse(Delivered'[i].data).timestamp
            /\ item.data = JsonParse(Delivered'[i].data).data
            /\ \E x \in subs' :
                 /\ x.producerId = JsonParse(Delivered'[i].data).producerId
                 /\ x.subscriberId = item.subscriberId
    ]_vars

\* An invocation has failed at a write after it had written for one
\* subscriber of a producer that has two.
C34_Witness ==
  /\ agg.pc = "failed" /\ agg.failedAt = "write"
  /\ Len(agg.writes) = 1
  /\ Len(agg.subsList) = 2
  /\ subEvents # {}

KeysOf(table) == {SubEventKey(x) : x \in table}
InsertsFor(stream, subscriberId) ==
  {i \in 1..Len(stream) :
     /\ stream[i].eventName = "INSERT"
     /\ stream[i].NewImage.subscriberId = subscriberId}
C36_AggregatorsCommute ==
  (/\ agg.pc = "done" /\ agg.pos = 0
   /\ aggB.pc = "done"
   /\ KeysOf(FanOut({}, agg.groups)) \cap KeysOf(FanOut({}, aggB.groups)) = {}) =>
    subEvents = FanOut({}, agg.groups) \cup FanOut({}, aggB.groups)

\* Both have returned after the second shard's write fell between two
\* writes of the first shard's invocation, and agent 1 has items of both.
C36_Witness ==
  /\ agg.pc = "done" /\ agg.pos = 0 /\ aggB.pc = "done"
  /\ KeysOf(FanOut({}, agg.groups)) \cap KeysOf(FanOut({}, aggB.groups)) = {}
  /\ \E i, j, k \in 1..Len(feed) :
       /\ i < j /\ j < k
       /\ feed[i].NewImage \in FanOut({}, agg.groups)
       /\ feed[j].NewImage \in FanOut({}, aggB.groups)
       /\ feed[k].NewImage \in FanOut({}, agg.groups)
  /\ \E x \in FanOut({}, agg.groups) : x.subscriberId = 1
  /\ \E x \in FanOut({}, aggB.groups) : x.subscriberId = 1

\* --------------------------------------------------------------- C37
\* C37 (SpecNotify): what the publisher sends depends on its batch only
\* through the number of qualifying INSERT records per subscriber.  When
\* the handler is about to send, the subscriber, the events and the queue
\* are those the handler computes for every other batch that has the same
\* number of qualifying records for each subscriber, on the same table
\* and the same agents, whatever timestamps and data the records of that
\* batch carry; and a batch for which the handler sends nothing for a
\* subscriber is matched by nothing sent for it on every such batch.
AltBatches == UNION {[1..n -> NotifyRecords] : n \in 1..MaxBatch}
SameCounts(b1, b2) ==
  \A s \in AgentIdSet :
    Cardinality(Qualifying(b1, s)) = Cardinality(Qualifying(b2, s))
C37_PayloadIgnored ==
  \A other \in AltBatches :
    SameCounts(other, pub.batch) =>
      /\ SeqToSet(SubscriberOrder(other)) = SeqToSet(pub.order)
      /\ pub.pc = "send" =>
           /\ pub.sortedEvents =
                QueryLatest(pub.order[pub.k], EventCount(other, pub.order[pub.k]))
           /\ \E a \in GetAgent(pub.order[pub.k]) : a.queueUrl = pub.queueUrl
      /\ \A u \in DOMAIN queues : \A m \in 1..Len(queues[u].msgs) :
           (/\ queues[u].msgs[m].delivery.pos = pub.pos
            /\ queues[u].msgs[m].delivery.n = Len(pub.batch)
            /\ pub.pc # "idle") =>
             queues[u].msgs[m].body.events =
               QueryLatest(queues[u].msgs[m].body.subscriberId,
                           EventCount(other, queues[u].msgs[m].body.subscriberId))

\* A batch of one INSERT notifying of (subscriber 1, timestamp 1, d1) has
\* been answered with a message that holds the item of timestamp 2.
C37_Witness ==
  /\ pub.pc = "done" /\ Len(pub.batch) = 1
  /\ pub.batch[1].eventName = "INSERT"
  /\ pub.batch[1].NewImage.subscriberId = 1
  /\ pub.batch[1].NewImage.timestamp = 1
  /\ \E m \in 1..Len(queues[QueueUrlOf(QueueName(1))].msgs) :
       /\ queues[QueueUrlOf(QueueName(1))].msgs[m].delivery.pos = pub.pos
       /\ queues[QueueUrlOf(QueueName(1))].msgs[m].body.events[1].timestamp = 2

\* --------------------------------------------------------------- C38
\* A register call that holds the queue it has created (a call that threw
\* answers 500 and holds none).
HoldsNewQueue(r) == reg[r].created /\ reg[r].queueUrl # NoUrl

\* C38 (SpecReg): inbox exclusivity.  No two items of AgentsTable have the
\* same queueUrl, and no two register calls hold the same newly created
\* queue, nor does a call hold as its new queue the queue of an item
\* written by another registration, however the calls interleave.
C38_InboxExclusive ==
  /\ \A a, b \in agents : a.queueUrl = b.queueUrl => a.agentId = b.agentId
  /\ \A r, q \in RegIds :
       (r # q /\ HoldsNewQueue(r) /\ HoldsNewQueue(q)) =>
         reg[r].queueUrl # reg[q].queueUrl
  /\ \A r \in RegIds : \A a \in agents :
       (HoldsNewQueue(r) /\ reg[r].queueUrl = a.queueUrl) =>
         a.agentId = reg[r].agentId

\* Two interleaved registrations of one identity have both written their
\* item: two items, two queues.
C38_Witness ==
  \E a, b \in agents :
    /\ a.agentId # b.agentId
    /\ a.resourceArn = b.resourceArn
    /\ a.queueUrl # b.queueUrl
    /\ a.queueUrl \in DOMAIN queues /\ b.queueUrl \in DOMAIN queues

\* --------------------------------------------------------------- C39
\* The records the current sample agent invocation has appended.
SampleAppended == SubSeq(kinesis, Len(sample.start) + 1, Len(kinesis))

\* C39 (SpecSample): the sample agent handler.  An invocation whose lookup
\* by its own identity returns no Agent item fails and appends nothing to
\* the Event Log; an invocation appends nothing before its PutRecord; an
\* invocation that completes found an item of its identity and has
\* appended exactly one record, whatever the number of messages it was
\* invoked with, whose partition key and agentId member are the agentId
\* of an item it found.  The Event Log only grows by appending.
C39_SampleAgent ==
  /\ Len(kinesis) >= Len(sample.start)
  /\ SubSeq(kinesis, 1, Len(sample.start)) = sample.start
  /\ (sample.pc = "failed" /\ sample.failedAt = "query") =>
       sample.items = {} /\ SampleAppended = <<>>
  /\ sample.pc \in {"query", "putRecord", "failed"} => SampleAppended = <<>>
  /\ sample.pc \in {"putRecord", "done"} =>
       /\ sample.items # {}
       /\ \A item \in sample.items : item.resourceArn = sample.arn
       /\ sample.agentId \in {item.agentId : item \in sample.items}
  /\ sample.pc = "done" =>
       /\ Len(SampleAppended) = 1
       /\ SampleAppended[1].partitionKey = sample.agentId
       /\ JsonParse(SampleAppended[1].data).agentId = sample.agentId

\* An invocation with two inbox messages has completed with one record
\* appended after an earlier invocation's record.
C39_Witness ==
  /\ sample.pc = "done"
  /\ sample.records = 2
  /\ Len(sample.start) = 1
  /\ Len(kinesis) = 2
  /\ kinesis[2].partitionKey = sample.agentId

=============================================================================
